---- MODULE Spec2Model ----
(***************************************************************************)
(* Model of the streaming pitch-shift pipeline of audio-transposer.        *)
(*                                                                         *)
(* Two components drive the RubberBand engine:                             *)
(*   - PitchShifterWorker (src/unnamed/part_000): the message-driven       *)
(*     two-pass (study + process) pipeline; actions W_*;                   *)
(*   - PitchShifter (src/src/audio/PitchShifter.ts): the in-page           *)
(*     single-pass pipeline used by the application; actions M_*.          *)
(*                                                                         *)
(* One request is handled at a time.  A handler is a chain of steps, one   *)
(* per native call / allocation, because every native call may trap: pc    *)
(* is the position in the handler and exc the JavaScript exception that    *)
(* is propagating through the enclosing finally / catch blocks.            *)
(***************************************************************************)
EXTENDS Integers, Sequences, FiniteSets, TLC

\* ---------------------------------------------------------------- bounds
MaxInputLength == 3      \* the longest input signal, in samples
MaxSamplesRequired == 2  \* rubberband_get_samples_required returns 1..this
MaxChannels == 2         \* the largest channel count
MaxAvailable == 2        \* rubberband_available returns 0..MaxAvailable
MaxRetrievals == 1       \* retrieval iterations per request before the
                         \* engine reports nothing more available
\* stands for `const maxProcessSize = 4096` (PitchShifter.ts:121), scaled
\* down so that inputs of MaxInputLength samples span several chunks
maxProcessSize == 2
MaxUploads == 2          \* files uploaded to the page
MaxExports == 2          \* exports that can be waiting for FFmpeg at once
MaxMessages == 3         \* messages posted to the worker
MaxRequests == 2         \* requests made on one FFmpeg object
MaxIds == 2              \* distinct values of Date.now() + Math.random()
MaxFrames == 2           \* the longest AudioBuffer encoded as WAV, in frames
MaxCalls == 3            \* calls made on one AudioExporter
MaxEvents == 1           \* undelivered LOG / PROGRESS events of the FFmpeg worker
\* the sample rate of decoded audio (`-ar 44100`)
ValidSampleRate == 44100

VARIABLES
  impl,            \* the component under analysis (fixed in a behaviour)
  initialized,     \* this.initialized of that component
  pc,              \* position in the handler
  exc,             \* propagating exception message (<<>> = none)
  inputLength,     \* audioData[0].length / audioBuffer.length
  channels,        \* message.channels / audioBuffer.numberOfChannels
  semitones,       \* requested shift
  sampleRate,      \* message.sampleRate / audioBuffer.sampleRate
  nonFinite,       \* names of the request parameters whose value is NaN
  stretcher,       \* handle returned by rubberband_new (0 = none)
  samplesRequired, \* chunk size read from the engine (worker)
  read,            \* `read` (worker) / `offset` (PitchShifter) loop variable
  ch,              \* channel loop variable
  final,           \* `final` argument of tryRetrieveOutput
  available,       \* last value returned by rubberband_available
  inputPtrs,       \* pointer table for the input buffers
  outputPtrs,      \* pointer table for the output buffers
  channelDataPtrs, \* worker: per-channel input buffers (whole request)
  inputBuffers,    \* PitchShifter: per-channel input buffers (one chunk)
  outputBuffers,   \* per-channel output buffers (one retrieval)
  outputChunks,    \* the retrieved chunks, in retrieval order (each one
                   \* sequence of samples per channel)
  result,          \* the combined output channels (<<>> = none)
  live,            \* arena: pointers allocated and not yet freed
  allocBytes,      \* arena: allocBytes[p] = size requested for pointer p
  frees,           \* arena: number of _free calls on non-null pointers
  doubleFree,      \* arena: a pointer that was not live has been freed
  retrievals,      \* number of retrieval iterations started
  phase,           \* scheduler state of spec 4.3
  calls,           \* engine calls issued for the current request, in order
  posts,           \* responses posted / promise outcome, in order
  \* ---- the page: UIController and PitchShifterApp
  uiPc,            \* "ready": the event loop can run the next task;
                   \* "shifting": handlePitchShift has not settled yet
  previewBtn,      \* [disabled, loading, text] of #previewBtn
  exportBtn,       \* [disabled, loading, text] of #exportBtn
  progressVisible, \* the progress bar has the class `visible`
  status,          \* [text, type] of the status line
  pitchSlider,     \* parseInt(pitchSlider.value, 10)
  currentAudioBuffer,   \* the loaded file (0 = null)
  onPitchShift,    \* the pitch-shift callback is set
  onExport,        \* the export callback is set
  processedAudioBuffer, \* [file, semitones] it was made from (file 0 = null)
  uploads,         \* number of files handed to handleFileUpload so far
  decoding,        \* files whose decodeAudioFile has not settled
  exporting,       \* handleExport invocations whose export has not settled
  inFlight,        \* handlePitchShift invocations that have not settled
  shiftArgs,       \* [file, semitones] of the pitch-shift request issued last
  \* ---- the worker's event loop (handleMessage activations)
  handlers,        \* handlers[id]: the handleMessage activation of message id
  taskQueue,       \* ids of the messages delivered and not yet dispatched
  microtasks,      \* ids of the activations whose await has settled
  running,         \* the activation that holds the thread (0 = none)
  responses,       \* the responses posted by the worker, in order
  sessions,        \* the engine sessions created and not yet deleted
  created,         \* number of engine sessions created so far
  uses,            \* <<id, session>>: activation id made a call on session
  \* ---- the FFmpeg channel (class FFmpeg and its embedded worker)
  worker,          \* this.#worker (0 = null, 1 = a running Worker)
  loaded,          \* this.loaded
  resolves,        \* this.#resolves: id -> promise whose resolve is stored
  rejects,         \* this.#rejects: id -> promise whose reject is stored
  promises,        \* the promises returned by #send, in order of creation
  ffmpeg,          \* worker side: the core is loaded (`ffmpeg` is set)
  workerInbox,     \* requests posted to the worker and not yet handled
  workerOutbox,    \* responses posted by the worker and not yet delivered
  workerLoads,     \* LOAD requests whose handler awaits load() in the worker
  \* ---- the WAV encoder (audioBufferToWav)
  audioBuffer,     \* the AudioBuffer to encode
  wav,             \* the bytes of the ArrayBuffer returned (<<>> = none yet)
  encoder,         \* the class whose audioBufferToWav returned them
  \* ---- AudioExporter (its `initialized` field is the variable above)
  exports,         \* the calls of init / exportTo... made, in order
  exporterFfmpeg,  \* AudioExporter.ffmpeg: 0 = null, else an index of ffmpegs
  ffmpegs,         \* the FFmpeg instances created: how far each has loaded
  \* ---- AudioProcessor
  decodes          \* the calls of decodeWithFFmpeg made, in order

uiVars ==
  <<uiPc, previewBtn, exportBtn, progressVisible, status, pitchSlider,
    currentAudioBuffer, onPitchShift, onExport, processedAudioBuffer,
    uploads, decoding, exporting, inFlight, shiftArgs>>
wavVars == <<audioBuffer, wav, encoder>>
exporterVars == <<exports, exporterFfmpeg, ffmpegs>>
decoderVars == <<decodes>>
ffVars ==
  <<worker, loaded, resolves, rejects, promises, ffmpeg, workerInbox,
    workerOutbox, workerLoads>>
eventLoopVars ==
  <<handlers, taskQueue, microtasks, running, responses, sessions, created,
    uses>>
\* what no step of a component changes: which component it is, the page and
\* the event loop around the handler
fixedVars == <<impl, uiVars, eventLoopVars, ffVars, wavVars, exporterVars, decoderVars>>
reqVars   == <<fixedVars, inputLength, channels, semitones, sampleRate,
               nonFinite>>
loopVars  == <<samplesRequired, read, ch, final, available>>
bufVars   == <<inputPtrs, outputPtrs, channelDataPtrs, inputBuffers,
               outputBuffers>>
arenaVars == <<live, allocBytes, frees, doubleFree>>
vars == <<initialized, pc, exc, stretcher, outputChunks, result, retrievals,
          phase, calls, posts, reqVars, loopVars, bufVars, arenaVars>>

Components == {"worker", "main"}

Min(a, b) == IF a <= b THEN a ELSE b

NoExc == <<>>

\* ------------------------------------------------------------- messages
\* An error message is a sequence of text fragments; concatenation of
\* strings is concatenation of the sequences.
NotInitializedMsg(c) ==
  IF c = "worker" THEN <<"Worker not initialized">>
  ELSE <<"Pitch shifter not initialized">>
CreateFailedMsg == <<"Failed to create RubberBand stretcher">>
InitFailedMsg(c) ==
  IF c = "worker" THEN <<"Failed to initialize RubberBand: ", "import failed">>
  ELSE <<"Failed to initialize pitch shifter: ", "import failed">>
\* message of the error raised when native call op traps
EngineMsg(op) == <<op>>
OutOfMemoryMsg == <<"_malloc">>
CreateBufferMsg == <<"createBuffer">>
TypeErrorMsg == <<"Cannot read properties of undefined (reading 'length')">>

\* ------------------------------------------------------------ log entries
\* One engine call: the operation, the handle, the chunk (offset, length,
\* final flag) of a study / process call, the value returned and whether
\* the call trapped. For the worker's rubberband_available and
\* rubberband_retrieve calls `final` is the final argument of the
\* tryRetrieveOutput invocation that made the call and `len` the number of
\* samples asked for. `arg` holds the ratios passed to rubberband_new (time
\* ratio, pitch ratio), rubberband_set_time_ratio and
\* rubberband_set_pitch_scale.
Call(op, off, len, fin, ret, threw) ==
  [op |-> op, h |-> stretcher, off |-> off, len |-> len, final |-> fin,
   ret |-> ret, threw |-> threw, arg |-> <<>>]

\* A ratio is written by its exponent: Ratio(t, FALSE) is 2^(t/12), so the
\* number 1 is Ratio(0, FALSE); Ratio(0, TRUE) is NaN.
Ratio(twelfths, nan) == [twelfths |-> twelfths, nan |-> nan]
One == Ratio(0, FALSE)

Post(type, num, den, pass, msg) ==
  [type |-> type, num |-> num, den |-> den, pass |-> pass, msg |-> msg,
   data |-> <<>>]

ReadyPost == Post("ready", 0, 1, "", <<>>)
\* 'complete' with its outputChannels / the returned buffer's channels
CompletePost(data) == [Post("complete", 0, 1, "", <<>>) EXCEPT !.data = data]
ErrorPost(msg) == Post("error", 0, 1, "", msg)
\* progress value num/den
ProgressPost(num, den, pass) == Post("progress", num, den, pass, <<>>)

IsTerminal(p) == p.type \in {"complete", "error"}

\* ------------------------------------------------------------------ arena
\* Outcomes of one _malloc call: a fresh pointer, or a failed allocation,
\* which aborts the module (the call throws), as spec 4.2 has allocate fail.
MallocOutcomes == {"ok", "throw"}

\* pointer returned by a _malloc call with the given outcome
MallocPtr(outcome) == IF outcome = "ok" THEN Len(allocBytes) + 1 ELSE 0

\* effect of one _malloc(bytes) call on the arena
Malloc(bytes, outcome) ==
  /\ live' = IF outcome = "ok" THEN live \cup {Len(allocBytes) + 1} ELSE live
  /\ allocBytes' = IF outcome = "ok" THEN Append(allocBytes, bytes)
                   ELSE allocBytes
  /\ UNCHANGED <<frees, doubleFree>>

\* effect of calling _free on every pointer of the sequence ptrs, in order
\* (free of the null pointer is a no-op)
FreeAll(ptrs) ==
  /\ live' = live \ {ptrs[i] : i \in DOMAIN ptrs}
  /\ frees' = frees + Cardinality({i \in DOMAIN ptrs : ptrs[i] # 0})
  /\ doubleFree' = (doubleFree \/
        \E i \in DOMAIN ptrs :
           /\ ptrs[i] # 0
           /\ \/ ptrs[i] \notin live
              \/ \E j \in 1..(i - 1) : ptrs[j] = ptrs[i])
  /\ UNCHANGED allocBytes

\* number of _malloc calls of the current request that returned a pointer
mallocs == Len(allocBytes)

\* --------------------------------------------------------------- control
\* a JavaScript throw: the exception propagates to the handler at target
Throw(msg, target) ==
  /\ exc' = msg
  /\ pc' = target
  /\ phase' = "Error"

Goto(target) ==
  /\ pc' = target
  /\ UNCHANGED exc

Idle == pc = "idle"

SemitoneValues == {0, 7}

\* isFinite(x) for the request parameter called name
IsFinite(name) == name \notin nonFinite

\* Process requests. A well-formed request has a positive finite sample
\* rate and channel count and a finite shift; a malformed one is a
\* one-sample, one-channel signal with exactly one parameter that is NaN
\* (its number is then immaterial and written 0), zero or negative.
Request(n, nch, rate, s, nan) ==
  [n |-> n, nch |-> nch, rate |-> rate, s |-> s, nan |-> nan]
\* the empty signal, one sample, and the longest signal
InputLengths == {0, 1, MaxInputLength}
\* mono and the largest channel count
ChannelCounts == {1, MaxChannels}
ValidRequests ==
  {Request(n, nch, ValidSampleRate, s, {}) :
     n \in InputLengths, nch \in ChannelCounts, s \in SemitoneValues}
InvalidRequests ==
  UNION {
    {Request(1, 1, rate, 7, {}) : rate \in {0 - 1, 0}},
    {Request(1, 1, 0, s, {"sampleRate"}) : s \in SemitoneValues},
    {Request(1, 0, ValidSampleRate, 7, {})},
    {Request(1, 0, ValidSampleRate, 7, {"channels"})},
    {Request(1, 1, ValidSampleRate, 0, {"semitones"})} }
Requests == ValidRequests \cup InvalidRequests

\* Samples are told apart by their origin: <<0, c, i>> is sample i of
\* channel c of the input signal, <<k, c, i>> with k > 0 is sample i the
\* engine wrote for channel c in the k-th retrieval.
InputSignal(n, nch) == [c \in 1..nch |-> [i \in 1..n |-> <<0, c, i>>]]

\* audioData / the channels of audioBuffer (a malformed request still
\* carries one channel of data)
AudioData(r) == InputSignal(r.n, IF r.nch > 0 THEN r.nch ELSE 1)

\* a button as the page declares it: disabled, with its label
Button(disabled, loading, text) ==
  [disabled |-> disabled, loading |-> loading, text |-> text]
Status(text, type) == [text |-> text, type |-> type]
NoBuffer == [file |-> 0, semitones |-> 0]

\* the page as loaded, after UIController's constructor and init
UIInit ==
  /\ uiPc = "ready"
  /\ previewBtn = Button(TRUE, FALSE, "Preview")
  /\ exportBtn = Button(TRUE, FALSE, "Export M4A")
  /\ progressVisible = FALSE
  /\ status = Status("", "info")
  /\ pitchSlider = 0
  /\ currentAudioBuffer = 0
  /\ onPitchShift = FALSE
  /\ onExport = FALSE
  /\ processedAudioBuffer = NoBuffer
  /\ uploads = 0
  /\ decoding = {}
  /\ exporting = 0
  /\ inFlight = 0
  /\ shiftArgs = NoBuffer

\* the worker after `new PitchShifterWorker()`: no message delivered yet
EventLoopInit ==
  /\ handlers = <<>>
  /\ taskQueue = <<>>
  /\ microtasks = <<>>
  /\ running = 0
  /\ responses = <<>>
  /\ sessions = {}
  /\ created = 0
  /\ uses = {}

\* a new FFmpeg(): no worker yet
FFmpegInit ==
  /\ worker = 0
  /\ loaded = FALSE
  /\ resolves = <<>>
  /\ rejects = <<>>
  /\ promises = <<>>
  /\ ffmpeg = FALSE
  /\ workerInbox = <<>>
  /\ workerOutbox = <<>>
  /\ workerLoads = <<>>

\* an AudioBuffer: its frames, its channels, its sample rate and its
\* samples, data[c][i] in thousandths
AudioBuffer(length, numberOfChannels, rate, data) ==
  [length |-> length, numberOfChannels |-> numberOfChannels,
   sampleRate |-> rate, data |-> data]

\* nothing to encode yet
WavInit ==
  /\ audioBuffer = AudioBuffer(0, 0, 0, <<>>)
  /\ wav = <<>>
  /\ encoder = ""

\* a new AudioExporter()
ExporterInit ==
  /\ exports = <<>>
  /\ exporterFfmpeg = 0
  /\ ffmpegs = <<>>

\* a new AudioProcessor()
DecoderInit == decodes = <<>>

\* a component that handles no request
EngineInit ==
  /\ EventLoopInit
  /\ FFmpegInit
  /\ ExporterInit
  /\ DecoderInit
  /\ pc = "idle"
  /\ exc = NoExc
  /\ inputLength = 0
  /\ channels = 1
  /\ semitones = 0
  /\ sampleRate = ValidSampleRate
  /\ nonFinite = {}
  /\ stretcher = 0
  /\ samplesRequired = 0
  /\ read = 0
  /\ ch = 0
  /\ final = FALSE
  /\ available = 0
  /\ inputPtrs = 0
  /\ outputPtrs = 0
  /\ channelDataPtrs = <<>>
  /\ inputBuffers = <<>>
  /\ outputBuffers = <<>>
  /\ outputChunks = <<>>
  /\ result = <<>>
  /\ live = {}
  /\ allocBytes = <<>>
  /\ frees = 0
  /\ doubleFree = FALSE
  /\ retrievals = 0
  /\ phase = "Idle"
  /\ calls = <<>>
  /\ posts = <<>>

Init ==
  /\ UIInit
  /\ impl \in Components
  /\ initialized = FALSE
  /\ EngineInit
  /\ WavInit

\* Handling a message starts with fresh per-message state: the logs and the
\* arena counters are instruments scoped to one message.
FreshState ==
  /\ stretcher' = 0
  /\ samplesRequired' = 0
  /\ read' = 0
  /\ ch' = 0
  /\ final' = FALSE
  /\ available' = 0
  /\ inputPtrs' = 0
  /\ outputPtrs' = 0
  /\ channelDataPtrs' = <<>>
  /\ inputBuffers' = <<>>
  /\ outputBuffers' = <<>>
  /\ outputChunks' = <<>>
  /\ result' = <<>>
  /\ live' = {}
  /\ allocBytes' = <<>>
  /\ frees' = 0
  /\ doubleFree' = FALSE
  /\ retrievals' = 0
  /\ calls' = <<>>
  /\ exc' = NoExc

StartRequest(c, r) ==
  /\ Idle
  /\ impl = c
  /\ inputLength' = r.n
  /\ channels' = r.nch
  /\ semitones' = r.s
  /\ sampleRate' = r.rate
  /\ nonFinite' = r.nan
  /\ FreshState
  /\ UNCHANGED <<fixedVars, initialized>>

\* The handler has returned to the event loop: the next message is handled
\* from the idle position with fresh per-message state.
Return(c) ==
  /\ pc = "done"
  /\ impl = c
  /\ pc' = "idle"
  /\ phase' = "Idle"
  /\ posts' = <<>>
  /\ FreshState
  /\ UNCHANGED <<initialized, reqVars>>

\* ------------------------------------------------------------------ init
\* handleMessage 'init' -> init(): loads the module once; a load failure is
\* caught by handleMessage and posted as an error.
W_init ==
  /\ Idle
  /\ impl = "worker"
  /\ \E ok \in BOOLEAN :
       IF initialized
       THEN /\ posts' = <<ReadyPost>>
            /\ UNCHANGED initialized
       ELSE IF ok
       THEN /\ initialized' = TRUE
            /\ posts' = <<ReadyPost>>
       ELSE /\ posts' = <<ErrorPost(InitFailedMsg("worker"))>>
            /\ UNCHANGED initialized
  /\ pc' = "idle"
  /\ phase' = "Idle"
  /\ FreshState
  /\ UNCHANGED reqVars

\* PitchShifter.init()
M_init ==
  /\ Idle
  /\ impl = "main"
  /\ \E ok \in BOOLEAN :
       IF initialized
       THEN /\ posts' = <<>>
            /\ UNCHANGED initialized
       ELSE IF ok
       THEN /\ initialized' = TRUE
            /\ posts' = <<>>
       ELSE /\ posts' = <<ErrorPost(InitFailedMsg("main"))>>
            /\ UNCHANGED initialized
  /\ pc' = "idle"
  /\ phase' = "Idle"
  /\ FreshState
  /\ UNCHANGED reqVars

\* the non-zero handle rubberband_new returns for a created stretcher
Handle == 1

\* a void native call issued at the current position: it returns, or it
\* traps and the error propagates to handler
NativeVoid(op, next, handler) ==
  \E ok \in BOOLEAN :
    /\ calls' = Append(calls, Call(op, 0, 0, 0, 0, ~ok))
    /\ IF ok THEN Goto(next) /\ UNCHANGED phase
       ELSE Throw(EngineMsg(op), handler)

\* a void native call that is given a ratio
NativeRatio(op, ratio, next, handler) ==
  \E ok \in BOOLEAN :
    /\ calls' = Append(calls,
                       [Call(op, 0, 0, 0, 0, ~ok) EXCEPT !.arg = <<ratio>>])
    /\ IF ok THEN Goto(next) /\ UNCHANGED phase
       ELSE Throw(EngineMsg(op), handler)

\* const timeRatio = 1.0
timeRatio == One
\* const pitchRatio = Math.pow(2, semitones / 12)
pitchRatio == Ratio(semitones, ~IsFinite("semitones"))

\* ================================================== PitchShifterWorker
\* faulty variant (breaks C13): a zero shift is processed like any other
W_processAudio_NoShortcut ==
  \E r \in Requests :
    /\ StartRequest("worker", r)
    /\ IF ~initialized
       THEN /\ posts' = <<ErrorPost(NotInitializedMsg("worker"))>>
            /\ pc' = "done"
            /\ phase' = "Error"
       ELSE /\ posts' = <<>>
            /\ pc' = "w_new"
            /\ phase' = "Configuring"

\* handleMessage 'process' -> processAudio, up to the first native call; the
\* "not initialized" error is caught and posted by handleMessage
W_processAudio ==
  \E r \in Requests :
    /\ StartRequest("worker", r)
    /\ IF ~initialized
       THEN /\ posts' = <<ErrorPost(NotInitializedMsg("worker"))>>
            /\ pc' = "done"
            /\ phase' = "Error"
       ELSE IF r.s = 0 /\ "semitones" \notin r.nan
       THEN /\ posts' = <<CompletePost(AudioData(r))>>
            /\ pc' = "done"
            /\ phase' = "Complete"
       ELSE /\ posts' = <<>>
            /\ pc' = "w_new"
            /\ phase' = "Configuring"

\* faulty variant (breaks C12): the handle is used without the null test
W_new_NoNullTest ==
  /\ pc = "w_new"
  /\ \E outcome \in {"handle", "null", "throw"} :
       /\ stretcher' = IF outcome = "handle" THEN Handle ELSE 0
       /\ calls' = Append(calls,
             [Call("rubberband_new", 0, 0, 0, stretcher', outcome = "throw")
                EXCEPT !.h = stretcher', !.arg = <<One, One>>])
       /\ IF outcome = "throw"
          THEN Throw(EngineMsg("rubberband_new"), "w_catch")
          ELSE Goto("w_setTimeRatio") /\ UNCHANGED phase
  /\ UNCHANGED <<initialized, outputChunks, result, retrievals, posts,
                 reqVars, loopVars, bufVars, arenaVars>>

\* rubberband_new and the null-handle test
W_new ==
  /\ pc = "w_new"
  /\ \E outcome \in {"handle", "null", "throw"} :
       /\ stretcher' = IF outcome = "handle" THEN Handle ELSE 0
       /\ calls' = Append(calls,
             [Call("rubberband_new", 0, 0, 0, stretcher', outcome = "throw")
                EXCEPT !.h = stretcher', !.arg = <<One, One>>])
       /\ CASE outcome = "handle" -> Goto("w_setTimeRatio") /\ UNCHANGED phase
            [] outcome = "null" -> Throw(CreateFailedMsg, "w_catch")
            [] outcome = "throw" ->
                 Throw(EngineMsg("rubberband_new"), "w_catch")
  /\ UNCHANGED <<initialized, outputChunks, result, retrievals, posts,
                 reqVars, loopVars, bufVars, arenaVars>>

W_setTimeRatio ==
  /\ pc = "w_setTimeRatio"
  /\ NativeRatio("rubberband_set_time_ratio", timeRatio, "w_setPitchScale",
                 "w_delete")
  /\ UNCHANGED <<initialized, stretcher, outputChunks, result, retrievals,
                 posts, reqVars, loopVars, bufVars, arenaVars>>

W_setPitchScale ==
  /\ pc = "w_setPitchScale"
  /\ NativeRatio("rubberband_set_pitch_scale", pitchRatio,
                 "w_setExpectedInputDuration", "w_delete")
  /\ UNCHANGED <<initialized, stretcher, outputChunks, result, retrievals,
                 posts, reqVars, loopVars, bufVars, arenaVars>>

W_setExpectedInputDuration ==
  /\ pc = "w_setExpectedInputDuration"
  /\ NativeVoid("rubberband_set_expected_input_duration",
                "w_getSamplesRequired", "w_delete")
  /\ UNCHANGED <<initialized, stretcher, outputChunks, result, retrievals,
                 posts, reqVars, loopVars, bufVars, arenaVars>>

\* the chunk size is whatever the engine asks for
W_getSamplesRequired ==
  /\ pc = "w_getSamplesRequired"
  /\ \/ \E sr \in 1..MaxSamplesRequired :
          /\ samplesRequired' = sr
          /\ calls' = Append(calls,
                Call("rubberband_get_samples_required", 0, 0, 0, sr, FALSE))
          /\ Goto("w_setMaxProcessSize")
          /\ UNCHANGED phase
     \/ /\ calls' = Append(calls,
                Call("rubberband_get_samples_required", 0, 0, 0, 0, TRUE))
        /\ Throw(EngineMsg("rubberband_get_samples_required"), "w_delete")
        /\ UNCHANGED samplesRequired
  /\ UNCHANGED <<initialized, stretcher, outputChunks, result, retrievals,
                 posts, reqVars, read, ch, final, available, bufVars,
                 arenaVars>>

W_setMaxProcessSize ==
  /\ pc = "w_setMaxProcessSize"
  /\ NativeVoid("rubberband_set_max_process_size", "w_mallocInputPtrs",
                "w_delete")
  /\ UNCHANGED <<initialized, stretcher, outputChunks, result, retrievals,
                 posts, reqVars, loopVars, bufVars, arenaVars>>

\* processAudioWithStudy: the three allocations below precede its try block,
\* so an allocation that throws leaves through processAudio's finally only
W_mallocInputPtrs ==
  /\ pc = "w_mallocInputPtrs"
  /\ \E outcome \in MallocOutcomes :
       /\ Malloc(channels * 4, outcome)
       /\ inputPtrs' = MallocPtr(outcome)
       /\ IF outcome = "throw" THEN Throw(OutOfMemoryMsg, "w_delete")
          ELSE Goto("w_mallocOutputPtrs") /\ UNCHANGED phase
  /\ UNCHANGED <<initialized, stretcher, outputChunks, result, retrievals,
                 calls, posts, reqVars, loopVars, outputPtrs, channelDataPtrs,
                 inputBuffers, outputBuffers>>

W_mallocOutputPtrs ==
  /\ pc = "w_mallocOutputPtrs"
  /\ \E outcome \in MallocOutcomes :
       /\ Malloc(channels * 4, outcome)
       /\ outputPtrs' = MallocPtr(outcome)
       /\ IF outcome = "throw" THEN Throw(OutOfMemoryMsg, "w_delete")
          ELSE /\ UNCHANGED exc
               /\ IF 0 < channels
                  THEN pc' = "w_mallocChannel" /\ UNCHANGED phase
                  ELSE pc' = "w_studyLoop" /\ phase' = "Studying"
  /\ ch' = 0
  /\ UNCHANGED <<initialized, stretcher, outputChunks, result, retrievals,
                 calls, posts, reqVars, samplesRequired, read, final,
                 available, inputPtrs, channelDataPtrs, inputBuffers,
                 outputBuffers>>

\* faulty variant (breaks C31): the input buffers are sized as if a sample
\* took one byte
W_mallocChannel_OneByte ==
  /\ pc = "w_mallocChannel"
  /\ \E outcome \in MallocOutcomes :
       /\ Malloc(samplesRequired, outcome)
       /\ IF outcome = "throw"
          THEN /\ Throw(OutOfMemoryMsg, "w_delete")
               /\ UNCHANGED <<channelDataPtrs, ch, read>>
          ELSE /\ channelDataPtrs' = Append(channelDataPtrs, MallocPtr(outcome))
               /\ ch' = ch + 1
               /\ read' = 0
               /\ UNCHANGED exc
               /\ IF ch + 1 < channels
                  THEN pc' = "w_mallocChannel" /\ UNCHANGED phase
                  ELSE pc' = "w_studyLoop" /\ phase' = "Studying"
  /\ UNCHANGED <<initialized, stretcher, outputChunks, result, retrievals,
                 calls, posts, reqVars, samplesRequired, final, available,
                 inputPtrs, outputPtrs, inputBuffers, outputBuffers>>

\* one iteration of `for (ch ...) channelDataPtrs.push(_malloc(...))`
W_mallocChannel ==
  /\ pc = "w_mallocChannel"
  /\ \E outcome \in MallocOutcomes :
       /\ Malloc(samplesRequired * 4, outcome)
       /\ IF outcome = "throw"
          THEN /\ Throw(OutOfMemoryMsg, "w_delete")
               /\ UNCHANGED <<channelDataPtrs, ch, read>>
          ELSE /\ channelDataPtrs' = Append(channelDataPtrs, MallocPtr(outcome))
               /\ ch' = ch + 1
               /\ read' = 0
               /\ UNCHANGED exc
               /\ IF ch + 1 < channels
                  THEN pc' = "w_mallocChannel" /\ UNCHANGED phase
                  ELSE pc' = "w_studyLoop" /\ phase' = "Studying"
  /\ UNCHANGED <<initialized, stretcher, outputChunks, result, retrievals,
                 calls, posts, reqVars, samplesRequired, final, available,
                 inputPtrs, outputPtrs, inputBuffers, outputBuffers>>

\* faulty variant (breaks C4): the remainder of the input is not taken into account
ChunkSize_NoRemainder(r) == samplesRequired

\* chunk descriptor of the loop iteration that starts at offset r
ChunkSize(r) == Min(samplesRequired, inputLength - r)
IsFinal(r) == r + ChunkSize(r) >= inputLength
Flag(b) == IF b THEN 1 ELSE 0

\* faulty variant (breaks C8): the process pass restarts its progress from zero
ProcessProgress_NoBase(r) == r * 50

\* progress values, as numerators over the denominator inputLength:
\* (read / inputLength) * 50 and 50 + (read / inputLength) * 50
StudyProgress(r) == r * 50
ProcessProgress(r) == 50 * inputLength + r * 50

\* faulty variant (breaks C9): a failed study call is reported and the loop carries on
W_studyLoop_ReportAndContinue ==
  /\ pc = "w_studyLoop"
  /\ IF read < inputLength
     THEN \E ok \in BOOLEAN :
            /\ calls' = Append(calls,
                  Call("rubberband_study", read, ChunkSize(read),
                       Flag(IsFinal(read)), 0, ~ok))
            /\ IF ok
               THEN /\ read' = read + ChunkSize(read)
                    /\ posts' = Append(posts,
                          ProgressPost(StudyProgress(read'), inputLength,
                                       "study"))
                    /\ pc' = "w_studyLoop"
                    /\ UNCHANGED <<exc, phase>>
               ELSE /\ read' = read + ChunkSize(read)
                    /\ posts' = Append(posts,
                          ErrorPost(EngineMsg("rubberband_study")))
                    /\ pc' = "w_studyLoop"
                    /\ UNCHANGED <<exc, phase>>
     ELSE /\ read' = 0
          /\ pc' = "w_processLoop"
          /\ phase' = "Processing"
          /\ UNCHANGED <<exc, calls, posts>>
  /\ UNCHANGED <<initialized, stretcher, outputChunks, result, retrievals,
                 reqVars, samplesRequired, ch, final, available, bufVars,
                 arenaVars>>

\* one iteration of the study loop (or its exit)
\* faulty variant (breaks C19): the time ratio is set again after every study call
W_studyLoop_Reconfigure ==
  /\ pc = "w_studyLoop"
  /\ IF read < inputLength
     THEN \E ok \in BOOLEAN :
            /\ calls' = Append(Append(calls,
                  Call("rubberband_study", read, ChunkSize(read),
                       Flag(IsFinal(read)), 0, ~ok)),
                  Call("rubberband_set_time_ratio", 0, 0, 0, 0, FALSE))
            /\ IF ok
               THEN /\ read' = read + ChunkSize(read)
                    /\ posts' = Append(posts,
                          ProgressPost(StudyProgress(read'), inputLength,
                                       "study"))
                    /\ pc' = "w_studyLoop"
                    /\ UNCHANGED <<exc, phase>>
               ELSE /\ Throw(EngineMsg("rubberband_study"), "w_finallyFree")
                    /\ UNCHANGED <<read, posts>>
     ELSE /\ read' = 0
          /\ pc' = "w_processLoop"
          /\ phase' = "Processing"
          /\ UNCHANGED <<exc, calls, posts>>
  /\ UNCHANGED <<initialized, stretcher, outputChunks, result, retrievals,
                 reqVars, samplesRequired, ch, final, available, bufVars,
                 arenaVars>>

W_studyLoop ==
  /\ pc = "w_studyLoop"
  /\ IF read < inputLength
     THEN \E ok \in BOOLEAN :
            /\ calls' = Append(calls,
                  Call("rubberband_study", read, ChunkSize(read),
                       Flag(IsFinal(read)), 0, ~ok))
            /\ IF ok
               THEN /\ read' = read + ChunkSize(read)
                    /\ posts' = Append(posts,
                          ProgressPost(StudyProgress(read'), inputLength,
                                       "study"))
                    /\ pc' = "w_studyLoop"
                    /\ UNCHANGED <<exc, phase>>
               ELSE /\ Throw(EngineMsg("rubberband_study"), "w_finallyFree")
                    /\ UNCHANGED <<read, posts>>
     ELSE /\ read' = 0
          /\ pc' = "w_processLoop"
          /\ phase' = "Processing"
          /\ UNCHANGED <<exc, calls, posts>>
  /\ UNCHANGED <<initialized, stretcher, outputChunks, result, retrievals,
                 reqVars, samplesRequired, ch, final, available, bufVars,
                 arenaVars>>

\* faulty variant (breaks C7): the process pass never flags its last chunk
W_processLoop_NeverFinal ==
  /\ pc = "w_processLoop"
  /\ IF read < inputLength
     THEN \E ok \in BOOLEAN :
            /\ calls' = Append(calls,
                  Call("rubberband_process", read, ChunkSize(read),
                       0, 0, ~ok))
            /\ IF ok
               THEN /\ final' = FALSE
                    /\ pc' = "w_available"
                    /\ UNCHANGED <<exc, phase>>
               ELSE /\ Throw(EngineMsg("rubberband_process"), "w_finallyFree")
                    /\ UNCHANGED final
     ELSE /\ final' = TRUE
          /\ pc' = "w_available"
          /\ phase' = "Draining"
          /\ UNCHANGED <<exc, calls>>
  /\ UNCHANGED <<initialized, stretcher, outputChunks, result, retrievals,
                 posts, reqVars, samplesRequired, read, ch, available,
                 bufVars, arenaVars>>

\* one iteration of the process loop up to the call of tryRetrieveOutput,
\* or the loop's exit into the final tryRetrieveOutput
\* faulty variant (breaks C15): the output is combined without the drain
W_processLoop_NoDrain ==
  /\ pc = "w_processLoop"
  /\ IF read < inputLength
     THEN \E ok \in BOOLEAN :
            /\ calls' = Append(calls,
                  Call("rubberband_process", read, ChunkSize(read),
                       Flag(IsFinal(read)), 0, ~ok))
            /\ IF ok
               THEN /\ final' = FALSE
                    /\ pc' = "w_available"
                    /\ UNCHANGED <<exc, phase>>
               ELSE /\ Throw(EngineMsg("rubberband_process"), "w_finallyFree")
                    /\ UNCHANGED final
     ELSE /\ final' = TRUE
          /\ pc' = "w_concat"
          /\ phase' = "Draining"
          /\ UNCHANGED <<exc, calls>>
  /\ UNCHANGED <<initialized, stretcher, outputChunks, result, retrievals,
                 posts, reqVars, samplesRequired, read, ch, available,
                 bufVars, arenaVars>>

W_processLoop ==
  /\ pc = "w_processLoop"
  /\ IF read < inputLength
     THEN \E ok \in BOOLEAN :
            /\ calls' = Append(calls,
                  Call("rubberband_process", read, ChunkSize(read),
                       Flag(IsFinal(read)), 0, ~ok))
            /\ IF ok
               THEN /\ final' = FALSE
                    /\ pc' = "w_available"
                    /\ UNCHANGED <<exc, phase>>
               ELSE /\ Throw(EngineMsg("rubberband_process"), "w_finallyFree")
                    /\ UNCHANGED final
     ELSE /\ final' = TRUE
          /\ pc' = "w_available"
          /\ phase' = "Draining"
          /\ UNCHANGED <<exc, calls>>
  /\ UNCHANGED <<initialized, stretcher, outputChunks, result, retrievals,
                 posts, reqVars, samplesRequired, read, ch, available,
                 bufVars, arenaVars>>

\* Values rubberband_available may return to the worker, whose retrieval
\* loop runs until the engine reports too little: after MaxRetrievals
\* retrieval iterations the engine has nothing more.
AvailableValues ==
  IF retrievals < MaxRetrievals THEN 0..MaxAvailable ELSE {0}

\* faulty variant (breaks C14): output is retrieved as soon as there is any
StopRetrieving_NoThreshold(a) == a < 1

\* the two break tests at the head of tryRetrieveOutput's loop
StopRetrieving(a) == a < 1 \/ (~final /\ a < samplesRequired)

\* tryRetrieveOutput: head of the loop; on break, back in the caller
W_available ==
  /\ pc = "w_available"
  /\ \/ \E a \in AvailableValues :
          /\ available' = a
          /\ calls' = Append(calls,
                Call("rubberband_available", 0, 0, Flag(final), a, FALSE))
          /\ UNCHANGED <<exc, final>>
          /\ IF StopRetrieving(a)
             THEN /\ UNCHANGED <<retrievals, outputBuffers, ch>>
                  /\ IF final
                     THEN /\ pc' = "w_concat"
                          /\ UNCHANGED <<read, posts, phase>>
                     ELSE /\ read' = read + ChunkSize(read)
                          /\ posts' = Append(posts,
                                ProgressPost(ProcessProgress(read'),
                                             inputLength, "process"))
                          /\ pc' = "w_processLoop"
                          /\ UNCHANGED phase
             ELSE /\ retrievals' = retrievals + 1
                  /\ outputBuffers' = <<>>
                  /\ ch' = 0
                  /\ pc' = IF 0 < channels THEN "w_mallocOut"
                           ELSE "w_retrieve"
                  /\ UNCHANGED <<read, posts, phase>>
     \/ /\ calls' = Append(calls,
              Call("rubberband_available", 0, 0, Flag(final), 0, TRUE))
        /\ Throw(EngineMsg("rubberband_available"), "w_finallyFree")
        /\ UNCHANGED <<available, final, retrievals, outputBuffers, ch, read,
                       posts>>
  /\ UNCHANGED <<initialized, stretcher, outputChunks, result, reqVars,
                 samplesRequired, inputPtrs, outputPtrs, channelDataPtrs,
                 inputBuffers, arenaVars>>

\* faulty variant (breaks C16): the output buffers hold samplesRequired samples
W_mallocOut_Required ==
  /\ pc = "w_mallocOut"
  /\ \E outcome \in MallocOutcomes :
       /\ Malloc(samplesRequired * 4, outcome)
       /\ IF outcome = "throw"
          THEN /\ Throw(OutOfMemoryMsg, "w_freeOut")
               /\ UNCHANGED <<outputBuffers, ch>>
          ELSE /\ outputBuffers' = Append(outputBuffers, MallocPtr(outcome))
               /\ ch' = ch + 1
               /\ pc' = IF ch + 1 < channels THEN "w_mallocOut"
                        ELSE "w_retrieve"
               /\ UNCHANGED <<exc, phase>>
  /\ UNCHANGED <<initialized, stretcher, outputChunks, result, retrievals,
                 calls, posts, reqVars, samplesRequired, read, final,
                 available, inputPtrs, outputPtrs, channelDataPtrs,
                 inputBuffers>>

\* one iteration of the output-buffer allocation loop (inside the try)
W_mallocOut ==
  /\ pc = "w_mallocOut"
  /\ \E outcome \in MallocOutcomes :
       /\ Malloc(available * 4, outcome)
       /\ IF outcome = "throw"
          THEN /\ Throw(OutOfMemoryMsg, "w_freeOut")
               /\ UNCHANGED <<outputBuffers, ch>>
          ELSE /\ outputBuffers' = Append(outputBuffers, MallocPtr(outcome))
               /\ ch' = ch + 1
               /\ pc' = IF ch + 1 < channels THEN "w_mallocOut"
                        ELSE "w_retrieve"
               /\ UNCHANGED <<exc, phase>>
  /\ UNCHANGED <<initialized, stretcher, outputChunks, result, retrievals,
                 calls, posts, reqVars, samplesRequired, read, final,
                 available, inputPtrs, outputPtrs, channelDataPtrs,
                 inputBuffers>>

\* What rubberband_retrieve leaves in the arena when it returns r in the
\* k-th retrieval: r samples in the buffer that entry c of the pointer
\* table points to, for every channel c.
EngineWrite(k, r) ==
  [p \in {outputBuffers[c] : c \in DOMAIN outputBuffers} |->
     LET c == CHOOSE d \in DOMAIN outputBuffers : outputBuffers[d] = p
     IN  [i \in 1..r |-> <<k, c, i>>]]

\* faulty variant (breaks C17): every channel of the chunk is read from the first buffer
CopyOut_FirstBuffer(heap, r) ==
  [c \in 1..channels |-> SubSeq(heap[outputBuffers[1]], 1, r)]

\* the chunk copied out of the arena: for every channel, r samples from
\* HEAPF32 at outputBuffers[ch]
CopyOut(heap, r) ==
  [c \in 1..channels |-> SubSeq(heap[outputBuffers[c]], 1, r)]

\* rubberband_retrieve and the copy of the retrieved chunk
W_retrieve ==
  /\ pc = "w_retrieve"
  /\ LET maxSamples == Min(samplesRequired, available) IN
       \/ \E retrieved \in 0..maxSamples :
            /\ calls' = Append(calls,
                  Call("rubberband_retrieve", 0, maxSamples, Flag(final),
                       retrieved, FALSE))
            /\ outputChunks' =
                 IF retrieved > 0
                 THEN Append(outputChunks,
                             CopyOut(EngineWrite(retrievals, retrieved),
                                     retrieved))
                 ELSE outputChunks
            /\ Goto("w_freeOut")
            /\ UNCHANGED phase
       \/ /\ calls' = Append(calls,
                  Call("rubberband_retrieve", 0, maxSamples, Flag(final), 0,
                       TRUE))
          /\ Throw(EngineMsg("rubberband_retrieve"), "w_freeOut")
          /\ UNCHANGED outputChunks
  /\ UNCHANGED <<initialized, stretcher, result, retrievals, posts, reqVars,
                 loopVars, bufVars, arenaVars>>

\* faulty variant (breaks C18): the buffers are freed after the try, not in its finally
W_freeOut_NotOnError ==
  /\ pc = "w_freeOut"
  /\ IF exc # NoExc THEN UNCHANGED arenaVars ELSE FreeAll(outputBuffers)
  /\ outputBuffers' = <<>>
  /\ pc' = IF exc # NoExc THEN "w_finallyFree" ELSE "w_available"
  /\ UNCHANGED <<initialized, exc, stretcher, outputChunks, result,
                 retrievals, phase, calls, posts, reqVars, loopVars,
                 inputPtrs, outputPtrs, channelDataPtrs, inputBuffers>>

\* finally of tryRetrieveOutput's iteration
W_freeOut ==
  /\ pc = "w_freeOut"
  /\ FreeAll(outputBuffers)
  /\ outputBuffers' = <<>>
  /\ pc' = IF exc # NoExc THEN "w_finallyFree" ELSE "w_available"
  /\ UNCHANGED <<initialized, exc, stretcher, outputChunks, result,
                 retrievals, phase, calls, posts, reqVars, loopVars,
                 inputPtrs, outputPtrs, channelDataPtrs, inputBuffers>>

RECURSIVE SumSeq(_)
SumSeq(q) == IF q = <<>> THEN 0 ELSE Head(q) + SumSeq(Tail(q))

\* the value of a fresh Float32Array's elements
Zero == <<0, 0, 0>>

\* Float32Array.prototype.set(src, offset)
SetAt(arr, src, offset) ==
  [i \in 1..Len(arr) |->
     IF offset < i /\ i <= offset + Len(src) THEN src[i - offset]
     ELSE arr[i]]

\* `for (const chunk of outputChunks) { channelData.set(chunk[ch], offset);
\* offset += chunk[ch].length }`
RECURSIVE Fill(_, _, _, _)
Fill(channelData, chunks, c, offset) ==
  IF chunks = <<>> THEN channelData
  ELSE Fill(SetAt(channelData, Head(chunks)[c], offset), Tail(chunks), c,
            offset + Len(Head(chunks)[c]))

\* totalLength: the sum of chunk[0].length over the chunks
TotalLength(chunks) ==
  SumSeq([j \in DOMAIN chunks |-> Len(chunks[j][1])])

\* the combined output: one array of totalLength samples per channel
Combine(chunks) ==
  [c \in 1..channels |->
     Fill([i \in 1..TotalLength(chunks) |-> Zero], chunks, c, 0)]

\* concatenation of the chunks; chunk[0] of a chunk without channels is
\* undefined and reading its length throws
W_concat ==
  /\ pc = "w_concat"
  /\ IF channels < 1 /\ outputChunks # <<>>
     THEN Throw(TypeErrorMsg, "w_finallyFree") /\ UNCHANGED result
     ELSE /\ result' = Combine(outputChunks)
          /\ Goto("w_finallyFree")
          /\ UNCHANGED phase
  /\ UNCHANGED <<initialized, stretcher, outputChunks, retrievals,
                 calls, posts, reqVars, loopVars, bufVars, arenaVars>>

\* faulty variant (breaks C1): rubberband_delete follows the try block instead of being
\* its finally, so a propagating error skips it
W_finallyFree_SkipDelete ==
  /\ pc = "w_finallyFree"
  /\ FreeAll(channelDataPtrs \o <<inputPtrs, outputPtrs>>)
  /\ pc' = IF exc # NoExc THEN "w_catch" ELSE "w_postComplete"
  /\ UNCHANGED <<initialized, exc, stretcher, outputChunks, result,
                 retrievals, phase, calls, posts, reqVars, loopVars, bufVars>>

\* finally of processAudioWithStudy
W_finallyFree ==
  /\ pc = "w_finallyFree"
  /\ FreeAll(channelDataPtrs \o <<inputPtrs, outputPtrs>>)
  /\ pc' = IF exc # NoExc THEN "w_delete" ELSE "w_postComplete"
  /\ UNCHANGED <<initialized, exc, stretcher, outputChunks, result,
                 retrievals, phase, calls, posts, reqVars, loopVars, bufVars>>

W_postComplete ==
  /\ pc = "w_postComplete"
  /\ posts' = Append(posts, CompletePost(result))
  /\ phase' = "Complete"
  /\ Goto("w_delete")
  /\ UNCHANGED <<initialized, stretcher, outputChunks, result, retrievals,
                 calls, reqVars, loopVars, bufVars, arenaVars>>

\* finally of processAudio: rubberband_delete; an error it raises replaces
\* the one that was propagating
W_delete ==
  /\ pc = "w_delete"
  /\ \E ok \in BOOLEAN :
       /\ calls' = Append(calls, Call("rubberband_delete", 0, 0, 0, 0, ~ok))
       /\ IF ok
          THEN /\ pc' = IF exc # NoExc THEN "w_catch" ELSE "done"
               /\ UNCHANGED <<exc, phase>>
          ELSE Throw(EngineMsg("rubberband_delete"), "w_catch")
  /\ UNCHANGED <<initialized, stretcher, outputChunks, result, retrievals,
                 posts, reqVars, loopVars, bufVars, arenaVars>>

\* faulty variant (breaks C10): the catch posts a fixed message
W_catch_Generic ==
  /\ pc = "w_catch"
  /\ posts' = Append(posts, ErrorPost(<<"Processing failed">>))
  /\ pc' = "done"
  /\ exc' = NoExc
  /\ phase' = "Error"
  /\ UNCHANGED <<initialized, stretcher, outputChunks, result, retrievals,
                 calls, reqVars, loopVars, bufVars, arenaVars>>

\* catch of handleMessage
W_catch ==
  /\ pc = "w_catch"
  /\ posts' = Append(posts, ErrorPost(exc))
  /\ pc' = "done"
  /\ exc' = NoExc
  /\ phase' = "Error"
  /\ UNCHANGED <<initialized, stretcher, outputChunks, result, retrievals,
                 calls, reqVars, loopVars, bufVars, arenaVars>>

WorkerNext ==
  \/ W_init \/ W_processAudio \/ W_new \/ W_setTimeRatio \/ W_setPitchScale
  \/ W_setExpectedInputDuration \/ W_getSamplesRequired
  \/ W_setMaxProcessSize \/ W_mallocInputPtrs \/ W_mallocOutputPtrs
  \/ W_mallocChannel \/ W_studyLoop \/ W_processLoop \/ W_available
  \/ W_mallocOut \/ W_retrieve \/ W_freeOut \/ W_concat \/ W_finallyFree
  \/ W_postComplete \/ W_delete \/ W_catch \/ Return("worker")

\* ======================================================== PitchShifter
M_ChunkSize(offset) == Min(maxProcessSize, inputLength - offset)
M_IsLastChunk(offset) == offset + M_ChunkSize(offset) >= inputLength

\* an error leaving shiftPitch's outer try is re-thrown with a prefix
Wrap(msg) == <<"Pitch shifting failed: ">> \o msg

\* `${x}` for the numbers a malformed request carries
NumberText(x, isNaN) ==
  IF isNaN THEN "NaN" ELSE IF x = 0 THEN "0" ELSE IF x = 0 - 1 THEN "-1"
  ELSE "?"

\* the parameter validation of shiftPitch, in the order of its tests: the
\* message of the first test that fails, <<>> when all pass (the pitch
\* ratio 2^(semitones/12) of a finite shift is finite and positive)
InvalidParameter(r) ==
  IF "semitones" \in r.nan THEN <<"Invalid semitones value: ", "NaN">>
  ELSE IF "sampleRate" \in r.nan \/ r.rate <= 0
  THEN <<"Invalid sample rate: ", NumberText(r.rate, "sampleRate" \in r.nan)>>
  ELSE IF "channels" \in r.nan \/ r.nch <= 0
  THEN <<"Invalid channels: ", NumberText(r.nch, "channels" \in r.nan)>>
  ELSE NoExc

\* shiftPitch up to the first native call; the initialization test precedes
\* the outer try, so its error is not wrapped; the validation is inside it
M_shiftPitch ==
  \E r \in Requests :
    /\ StartRequest("main", r)
    /\ IF ~initialized
       THEN /\ posts' = <<ErrorPost(NotInitializedMsg("main"))>>
            /\ pc' = "done"
            /\ phase' = "Error"
       ELSE IF r.s = 0 /\ "semitones" \notin r.nan
       THEN /\ posts' = <<CompletePost(AudioData(r))>>
            /\ pc' = "done"
            /\ phase' = "Complete"
       ELSE IF InvalidParameter(r) # NoExc
       THEN /\ posts' = <<ErrorPost(Wrap(InvalidParameter(r)))>>
            /\ pc' = "done"
            /\ phase' = "Error"
       ELSE /\ posts' = <<>>
            /\ pc' = "m_new"
            /\ phase' = "Configuring"

M_new ==
  /\ pc = "m_new"
  /\ \E outcome \in {"handle", "null", "throw"} :
       /\ stretcher' = IF outcome = "handle" THEN Handle ELSE 0
       /\ calls' = Append(calls,
             [Call("rubberband_new", 0, 0, 0, stretcher', outcome = "throw")
                EXCEPT !.h = stretcher', !.arg = <<timeRatio, pitchRatio>>])
       /\ CASE outcome = "handle" ->
                 Goto("m_setMaxProcessSize") /\ UNCHANGED phase
            [] outcome = "null" -> Throw(CreateFailedMsg, "m_catch")
            [] outcome = "throw" ->
                 Throw(EngineMsg("rubberband_new"), "m_catch")
  /\ UNCHANGED <<initialized, outputChunks, result, retrievals, posts,
                 reqVars, loopVars, bufVars, arenaVars>>

M_setMaxProcessSize ==
  /\ pc = "m_setMaxProcessSize"
  /\ NativeVoid("rubberband_set_max_process_size", "m_setTimeRatio",
                "m_delete")
  /\ UNCHANGED <<initialized, stretcher, outputChunks, result, retrievals,
                 posts, reqVars, loopVars, bufVars, arenaVars>>

M_setTimeRatio ==
  /\ pc = "m_setTimeRatio"
  /\ NativeRatio("rubberband_set_time_ratio", timeRatio, "m_setPitchScale",
                 "m_delete")
  /\ UNCHANGED <<initialized, stretcher, outputChunks, result, retrievals,
                 posts, reqVars, loopVars, bufVars, arenaVars>>

M_setPitchScale ==
  /\ pc = "m_setPitchScale"
  /\ NativeRatio("rubberband_set_pitch_scale", pitchRatio,
                 "m_mallocInputPtrs", "m_delete")
  /\ UNCHANGED <<initialized, stretcher, outputChunks, result, retrievals,
                 posts, reqVars, loopVars, bufVars, arenaVars>>

\* processAudio: both pointer tables are allocated before its try block
M_mallocInputPtrs ==
  /\ pc = "m_mallocInputPtrs"
  /\ \E outcome \in MallocOutcomes :
       /\ Malloc(channels * 4, outcome)
       /\ inputPtrs' = MallocPtr(outcome)
       /\ IF outcome = "throw" THEN Throw(OutOfMemoryMsg, "m_delete")
          ELSE Goto("m_mallocOutputPtrs") /\ UNCHANGED phase
  /\ UNCHANGED <<initialized, stretcher, outputChunks, result, retrievals,
                 calls, posts, reqVars, loopVars, outputPtrs, channelDataPtrs,
                 inputBuffers, outputBuffers>>

M_mallocOutputPtrs ==
  /\ pc = "m_mallocOutputPtrs"
  /\ \E outcome \in MallocOutcomes :
       /\ Malloc(channels * 4, outcome)
       /\ outputPtrs' = MallocPtr(outcome)
       /\ IF outcome = "throw" THEN Throw(OutOfMemoryMsg, "m_delete")
          ELSE /\ Goto("m_chunkLoop")
               /\ phase' = "Processing"
  /\ read' = 0
  /\ UNCHANGED <<initialized, stretcher, outputChunks, result, retrievals,
                 calls, posts, reqVars, samplesRequired, ch, final, available,
                 inputPtrs, channelDataPtrs, inputBuffers, outputBuffers>>

\* head of `for (offset = 0; offset < inputLength; offset += maxProcessSize)`
M_chunkLoop ==
  /\ pc = "m_chunkLoop"
  /\ IF read < inputLength
     THEN /\ inputBuffers' = <<>>
          /\ outputBuffers' = <<>>
          /\ ch' = 0
          /\ pc' = "m_mallocIn"
     ELSE /\ pc' = "m_concat"
          /\ UNCHANGED <<inputBuffers, outputBuffers, ch>>
  /\ UNCHANGED <<initialized, exc, stretcher, outputChunks, result,
                 retrievals, phase, calls, posts, reqVars, samplesRequired,
                 read, final, available, inputPtrs, outputPtrs,
                 channelDataPtrs, arenaVars>>

\* one iteration of the input-buffer allocation loop (inside the chunk's try)
M_mallocIn ==
  /\ pc = "m_mallocIn"
  /\ \E outcome \in MallocOutcomes :
       /\ Malloc(M_ChunkSize(read) * 4, outcome)
       /\ IF outcome = "throw"
          THEN /\ Throw(OutOfMemoryMsg, "m_freeChunk")
               /\ UNCHANGED <<inputBuffers, ch>>
          ELSE /\ inputBuffers' = Append(inputBuffers, MallocPtr(outcome))
               /\ ch' = ch + 1
               /\ pc' = IF ch + 1 < channels THEN "m_mallocIn"
                        ELSE "m_process"
               /\ UNCHANGED <<exc, phase>>
  /\ UNCHANGED <<initialized, stretcher, outputChunks, result, retrievals,
                 calls, posts, reqVars, samplesRequired, read, final,
                 available, inputPtrs, outputPtrs, channelDataPtrs,
                 outputBuffers>>

M_process ==
  /\ pc = "m_process"
  /\ \E ok \in BOOLEAN :
       /\ calls' = Append(calls,
             Call("rubberband_process", read, M_ChunkSize(read),
                  Flag(M_IsLastChunk(read)), 0, ~ok))
       /\ IF ok THEN Goto("m_available") /\ UNCHANGED phase
          ELSE Throw(EngineMsg("rubberband_process"), "m_freeChunk")
  /\ UNCHANGED <<initialized, stretcher, outputChunks, result, retrievals,
                 posts, reqVars, loopVars, bufVars, arenaVars>>

M_available ==
  /\ pc = "m_available"
  /\ \/ \E a \in 0..MaxAvailable :
          /\ available' = a
          /\ calls' = Append(calls,
                Call("rubberband_available", 0, 0, 0, a, FALSE))
          /\ UNCHANGED <<exc, phase>>
          /\ IF a > 0
             THEN /\ retrievals' = retrievals + 1
                  /\ ch' = 0
                  /\ pc' = "m_mallocOut"
             ELSE /\ pc' = "m_freeChunk"
                  /\ UNCHANGED <<retrievals, ch>>
     \/ /\ calls' = Append(calls,
              Call("rubberband_available", 0, 0, 0, 0, TRUE))
        /\ Throw(EngineMsg("rubberband_available"), "m_freeChunk")
        /\ UNCHANGED <<available, retrievals, ch>>
  /\ UNCHANGED <<initialized, stretcher, outputChunks, result, posts,
                 reqVars, samplesRequired, read, final, bufVars, arenaVars>>

M_mallocOut ==
  /\ pc = "m_mallocOut"
  /\ \E outcome \in MallocOutcomes :
       /\ Malloc(available * 4, outcome)
       /\ IF outcome = "throw"
          THEN /\ Throw(OutOfMemoryMsg, "m_freeChunk")
               /\ UNCHANGED <<outputBuffers, ch>>
          ELSE /\ outputBuffers' = Append(outputBuffers, MallocPtr(outcome))
               /\ ch' = ch + 1
               /\ pc' = IF ch + 1 < channels THEN "m_mallocOut"
                        ELSE "m_retrieve"
               /\ UNCHANGED <<exc, phase>>
  /\ UNCHANGED <<initialized, stretcher, outputChunks, result, retrievals,
                 calls, posts, reqVars, samplesRequired, read, final,
                 available, inputPtrs, outputPtrs, channelDataPtrs,
                 inputBuffers>>

\* rubberband_retrieve(available); the chunk is pushed whatever its length
M_retrieve ==
  /\ pc = "m_retrieve"
  /\ \/ \E retrieved \in 0..available :
          /\ calls' = Append(calls,
                Call("rubberband_retrieve", 0, available, 0, retrieved,
                     FALSE))
          /\ outputChunks' =
               Append(outputChunks,
                      CopyOut(EngineWrite(retrievals, retrieved), retrieved))
          /\ Goto("m_freeChunk")
          /\ UNCHANGED phase
     \/ /\ calls' = Append(calls,
              Call("rubberband_retrieve", 0, available, 0, 0, TRUE))
        /\ Throw(EngineMsg("rubberband_retrieve"), "m_freeChunk")
        /\ UNCHANGED outputChunks
  /\ UNCHANGED <<initialized, stretcher, result, retrievals, posts, reqVars,
                 loopVars, bufVars, arenaVars>>

\* finally of one chunk, then the loop increment
M_freeChunk ==
  /\ pc = "m_freeChunk"
  /\ FreeAll(inputBuffers \o outputBuffers)
  /\ inputBuffers' = <<>>
  /\ outputBuffers' = <<>>
  /\ IF exc # NoExc
     THEN pc' = "m_freePtrs" /\ UNCHANGED read
     ELSE pc' = "m_chunkLoop" /\ read' = read + maxProcessSize
  /\ UNCHANGED <<initialized, exc, stretcher, outputChunks, result,
                 retrievals, phase, calls, posts, reqVars, samplesRequired,
                 ch, final, available, inputPtrs, outputPtrs,
                 channelDataPtrs>>

M_concat ==
  /\ pc = "m_concat"
  /\ result' = Combine(outputChunks)
  /\ Goto("m_freePtrs")
  /\ UNCHANGED <<initialized, stretcher, outputChunks, retrievals, phase,
                 calls, posts, reqVars, loopVars, bufVars, arenaVars>>

\* finally of processAudio
M_freePtrs ==
  /\ pc = "m_freePtrs"
  /\ FreeAll(<<inputPtrs, outputPtrs>>)
  /\ pc' = IF exc # NoExc THEN "m_delete" ELSE "m_createBuffer"
  /\ UNCHANGED <<initialized, exc, stretcher, outputChunks, result,
                 retrievals, phase, calls, posts, reqVars, loopVars, bufVars>>

\* new AudioContext().createBuffer(channels, outputLength, sampleRate):
\* a buffer of zero frames is refused
M_createBuffer ==
  /\ pc = "m_createBuffer"
  /\ IF Len(result[1]) = 0
     THEN Throw(CreateBufferMsg, "m_delete")
     ELSE Goto("m_delete") /\ phase' = "Complete"
  /\ UNCHANGED <<initialized, stretcher, outputChunks, result, retrievals,
                 calls, posts, reqVars, loopVars, bufVars, arenaVars>>

\* finally of shiftPitch's inner try, then the return of the output buffer
M_delete ==
  /\ pc = "m_delete"
  /\ \E ok \in BOOLEAN :
       /\ calls' = Append(calls, Call("rubberband_delete", 0, 0, 0, 0, ~ok))
       /\ IF ok
          THEN IF exc # NoExc
               THEN /\ pc' = "m_catch"
                    /\ UNCHANGED <<exc, phase, posts>>
               ELSE /\ pc' = "done"
                    /\ posts' = Append(posts, CompletePost(result))
                    /\ UNCHANGED <<exc, phase>>
          ELSE /\ Throw(EngineMsg("rubberband_delete"), "m_catch")
               /\ UNCHANGED posts
  /\ UNCHANGED <<initialized, stretcher, outputChunks, result, retrievals,
                 reqVars, loopVars, bufVars, arenaVars>>

\* catch of shiftPitch's outer try
M_catch ==
  /\ pc = "m_catch"
  /\ posts' = Append(posts, ErrorPost(Wrap(exc)))
  /\ pc' = "done"
  /\ exc' = NoExc
  /\ phase' = "Error"
  /\ UNCHANGED <<initialized, stretcher, outputChunks, result, retrievals,
                 calls, reqVars, loopVars, bufVars, arenaVars>>

MainNext ==
  \/ M_init \/ M_shiftPitch \/ M_new \/ M_setMaxProcessSize
  \/ M_setTimeRatio \/ M_setPitchScale \/ M_mallocInputPtrs
  \/ M_mallocOutputPtrs \/ M_chunkLoop \/ M_mallocIn \/ M_process
  \/ M_available \/ M_mallocOut \/ M_retrieve \/ M_freeChunk \/ M_concat
  \/ M_freePtrs \/ M_createBuffer \/ M_delete \/ M_catch \/ Return("main")

Next == WorkerNext \/ MainNext

Spec == Init /\ [][Next]_vars

\* ======================================= the page: UIController and the app
\* The handlers of the page run as tasks of one event loop: a task runs to
\* completion, together with the promise continuations it leaves, before
\* the next task starts. shiftPitch never waits for another task (its only
\* await is on processAudio, which contains none), so a pitch-shift request
\* settles before the next task; decodeAudioFile and exportToM4A do wait
\* (file reading, decoding, FFmpeg) and settle in a later task.
engineVars ==
  <<initialized, pc, exc, stretcher, outputChunks, result, retrievals, phase,
    calls, posts, impl, inputLength, channels, semitones, sampleRate,
    nonFinite, loopVars, bufVars, arenaVars, eventLoopVars, ffVars,
    wavVars, exporterVars, decoderVars>>

\* values of the pitch slider
SliderValues == SemitoneValues

ProcessingStatus ==
  Status("Processing audio... This may take a moment.", "processing")
ExportingStatus ==
  Status("Exporting audio file... Please wait.", "processing")
ErrorStatus(text) == Status(text, "error")

\* a File: its MIME type, its name (a sequence of characters) and its size
\* in bytes
File(type, name, size) == [type |-> type, name |-> name, size |-> size]
FileTypes == {"audio/x-m4a", ""}
FileNames ==
  { <<"a", ".", "m", "p", "3">>, <<"A", ".", "W", "A", "V">>,
    <<"m", "p", "3">>, <<".", "M", "4", "a">>,
    <<"a", ".", "w", "a", "v", ".", "t", "x", "t">> }
maxSize == 52428800
FileSizes == {maxSize, maxSize + 1}
Files ==
  {File(t, n, sz) : t \in FileTypes, n \in FileNames, sz \in FileSizes}

allowedTypes ==
  {"audio/mpeg", "audio/mp3", "audio/wav", "audio/x-wav", "audio/mp4",
   "audio/x-m4a"}
allowedExtensions ==
  { <<".", "m", "p", "3">>, <<".", "w", "a", "v">>, <<".", "m", "4", "a">> }

\* the letters of the names above that have a lower-case form
UpperCase == <<"A", "M", "P", "V", "W">>
LowerCase == <<"a", "m", "p", "v", "w">>

\* faulty variant (breaks C35): the name is compared as it is written
toLowerCase_AsWritten(name) == name

\* String.prototype.toLowerCase
toLowerCase(name) ==
  [i \in DOMAIN name |->
     IF \E k \in DOMAIN UpperCase : UpperCase[k] = name[i]
     THEN LowerCase[CHOOSE k \in DOMAIN UpperCase : UpperCase[k] = name[i]]
     ELSE name[i]]

\* String.prototype.endsWith
endsWith(name, ext) ==
  /\ Len(name) >= Len(ext)
  /\ SubSeq(name, Len(name) - Len(ext) + 1, Len(name)) = ext

\* processFile(file) -> onFileUpload -> handleFileUpload up to its await; a
\* file of the wrong type or size is refused
ProcessFile(file) ==
  /\ uiPc = "ready"
  /\ uploads < MaxUploads
  /\ LET isValidType == file.type \in allowedTypes
         isValidExtension ==
           \E ext \in allowedExtensions :
             endsWith(toLowerCase(file.name), ext)
     IN  IF ~isValidType /\ ~isValidExtension
         THEN /\ status' =
                   ErrorStatus("Error: Please select an MP3, WAV, or M4A file")
              /\ UNCHANGED <<uploads, decoding>>
         ELSE IF file.size > maxSize
         THEN /\ status' =
                   ErrorStatus("Error: File size must be less than 50MB")
              /\ UNCHANGED <<uploads, decoding>>
         ELSE /\ status' = Status("Loading audio file...", "info")
              /\ uploads' = uploads + 1
              /\ decoding' = decoding \cup {uploads + 1}
  /\ UNCHANGED <<uiPc, previewBtn, exportBtn, progressVisible, pitchSlider,
                 currentAudioBuffer, onPitchShift, onExport,
                 processedAudioBuffer, exporting, inFlight, shiftArgs,
                 engineVars>>

\* a file is dropped on the page or chosen in the file input
UI_processFile == \E file \in Files : ProcessFile(file)

\* handleFileUpload after its await: enableControls, or the error status
UI_fileDecoded ==
  /\ uiPc = "ready"
  /\ \E file \in decoding, ok \in BOOLEAN :
       /\ decoding' = decoding \ {file}
       /\ IF ok
          THEN /\ status' = Status("Audio file loaded successfully", "info")
               /\ currentAudioBuffer' = file
               /\ onPitchShift' = TRUE
               /\ previewBtn' = [previewBtn EXCEPT !.disabled = FALSE]
          ELSE /\ status' = Status("Error: decode failed", "info")
               /\ UNCHANGED <<currentAudioBuffer, onPitchShift, previewBtn>>
  /\ UNCHANGED <<uiPc, exportBtn, progressVisible, pitchSlider, onExport,
                 processedAudioBuffer, uploads, exporting, inFlight,
                 shiftArgs, engineVars>>

UI_handleSliderChange ==
  /\ uiPc = "ready"
  /\ \E value \in SliderValues : pitchSlider' = value
  /\ exportBtn' = [exportBtn EXCEPT !.disabled = TRUE]
  /\ UNCHANGED <<uiPc, previewBtn, progressVisible, status,
                 currentAudioBuffer, onPitchShift, onExport,
                 processedAudioBuffer, uploads, decoding, exporting,
                 inFlight, shiftArgs, engineVars>>

\* the pitch-shift request of handlePreview: the loading indicators, then
\* onPitchShift(currentAudioBuffer, semitones)
IssuePitchShift ==
  /\ previewBtn' = Button(TRUE, TRUE, "Processing...")
  /\ progressVisible' = TRUE
  /\ status' = ProcessingStatus
  /\ inFlight' = inFlight + 1
  /\ shiftArgs' = [file |-> currentAudioBuffer, semitones |-> pitchSlider]

\* faulty variant (breaks C20): the pitch shift waits for later tasks, as the export does
UI_handlePreview_Yielding ==
  /\ uiPc = "ready"
  /\ ~previewBtn.disabled
  /\ inFlight < MaxExports
  /\ IF currentAudioBuffer = 0 \/ ~onPitchShift
     THEN UNCHANGED <<previewBtn, progressVisible, status, inFlight,
                      shiftArgs>>
     ELSE IssuePitchShift
  /\ UNCHANGED <<uiPc, exportBtn, pitchSlider, currentAudioBuffer,
                 onPitchShift, onExport, processedAudioBuffer, uploads,
                 decoding, exporting, engineVars>>

\* a click on the preview button (a disabled button receives none):
\* handlePreview, handlePitchShift and shiftPitch up to the await
UI_handlePreview ==
  /\ uiPc = "ready"
  /\ ~previewBtn.disabled
  /\ IF currentAudioBuffer = 0 \/ ~onPitchShift
     THEN UNCHANGED <<uiPc, previewBtn, progressVisible, status, inFlight,
                      shiftArgs>>
     ELSE /\ IssuePitchShift
          /\ uiPc' = "shifting"
  /\ UNCHANGED <<exportBtn, pitchSlider, currentAudioBuffer, onPitchShift,
                 onExport, processedAudioBuffer, uploads, decoding,
                 exporting, engineVars>>

\* resetLoadingStates
ResetLoadingStates ==
  /\ previewBtn' = Button(FALSE, FALSE, "Preview")
  /\ exportBtn' = Button(FALSE, FALSE, "Export M4A")
  /\ progressVisible' = FALSE

\* handlePitchShift after its await: setProcessedAudio and enableExport, or
\* the catch block
UI_pitchShiftSettled ==
  /\ inFlight > 0
  /\ \E ok \in BOOLEAN :
       IF ok
       THEN /\ processedAudioBuffer' = shiftArgs
            /\ previewBtn' = Button(FALSE, FALSE, "Preview")
            /\ progressVisible' = FALSE
            /\ status' = Status("Audio processed successfully", "success")
            /\ onExport' = TRUE
            /\ exportBtn' = [exportBtn EXCEPT !.disabled = FALSE]
       ELSE /\ ResetLoadingStates
            /\ status' = ErrorStatus("Error: Pitch shifting failed")
            /\ UNCHANGED <<processedAudioBuffer, onExport>>
  /\ inFlight' = inFlight - 1
  /\ uiPc' = "ready"
  /\ UNCHANGED <<pitchSlider, currentAudioBuffer, onPitchShift, uploads,
                 decoding, exporting, shiftArgs, engineVars>>

\* a click on the export button: handleExport and handleExport of the app
\* up to its await
UI_handleExport ==
  /\ uiPc = "ready"
  /\ ~exportBtn.disabled
  /\ exporting < MaxExports
  /\ IF processedAudioBuffer = NoBuffer \/ ~onExport
     THEN UNCHANGED <<exportBtn, progressVisible, status, exporting>>
     ELSE /\ exportBtn' = Button(TRUE, TRUE, "Exporting...")
          /\ progressVisible' = TRUE
          /\ status' = ExportingStatus
          /\ exporting' = exporting + 1
  /\ UNCHANGED <<uiPc, previewBtn, pitchSlider, currentAudioBuffer,
                 onPitchShift, onExport, processedAudioBuffer, uploads,
                 decoding, inFlight, shiftArgs, engineVars>>

\* handleExport of the app after its await: downloadFile, or the catch block
UI_exportSettled ==
  /\ uiPc = "ready"
  /\ exporting > 0
  /\ exporting' = exporting - 1
  /\ \E ok \in BOOLEAN :
       IF ok
       THEN /\ exportBtn' = Button(FALSE, FALSE, "Export M4A")
            /\ progressVisible' = FALSE
            /\ status' = Status("Audio exported successfully", "success")
            /\ UNCHANGED previewBtn
       ELSE /\ ResetLoadingStates
            /\ status' = ErrorStatus("Error: export failed")
  /\ UNCHANGED <<uiPc, pitchSlider, currentAudioBuffer, onPitchShift,
                 onExport, processedAudioBuffer, uploads, decoding, inFlight,
                 shiftArgs, engineVars>>

UINext ==
  \/ UI_processFile \/ UI_fileDecoded \/ UI_handleSliderChange
  \/ UI_handlePreview \/ UI_pitchShiftSettled \/ UI_handleExport
  \/ UI_exportSettled

\* the page after PitchShifterApp.init: the pitch shifter is initialized
UISpecInit ==
  /\ UIInit
  /\ impl = "main"
  /\ initialized = TRUE
  /\ EngineInit
  /\ WavInit

UISpec == UISpecInit /\ [][UINext]_vars

\* The page with every step of its own granted: whatever handler the page
\* can run does run. The answers of the execution side (the settling of a
\* pitch shift, a decode or an export) are not promised. The page sets no
\* timer on any request.
UIControl ==
  \/ UI_processFile \/ UI_handleSliderChange \/ UI_handlePreview
  \/ UI_handleExport

UIControlSpec == UISpecInit /\ [][UINext]_vars /\ WF_vars(UIControl)

\* ============================================ the worker's event loop
\* The worker handles each message in an activation of the async function
\* handleMessage. An activation runs until it waits: `await this.init()` waits
\* for the module to load, which settles in a later task, while `await
\* this.processAudio(...)` and `await this.processAudioWithStudy(...)` wait
\* for functions that contain no wait of their own, so they settle at once
\* and their continuations are microtasks. The event loop dispatches the next
\* message only when no activation runs and no microtask is left.
MessageTypes == {"init", "process"}

\* one activation of handleMessage: its message, where it is, the session it
\* created, the error it propagates and the module instances it has made
Handler(type, at) ==
  [type |-> type, pc |-> at, stretcher |-> 0, exc |-> NoExc, loads |-> 0]

Response(id, type) == [id |-> id, type |-> type]

\* the function handleMessage calls for a message of the given type
Entry(type) == IF type = "init" THEN "init" ELSE "processAudio"

notLoopVars ==
  <<pc, exc, stretcher, outputChunks, result, retrievals, phase, calls,
    posts, impl, uiVars, inputLength, channels, semitones, sampleRate,
    nonFinite, loopVars, bufVars, arenaVars, ffVars, wavVars, exporterVars, decoderVars>>

\* the activation waits at position `at` for a promise that has settled
\* already: its continuation is queued as a microtask
AwaitSettled(id, at, msg) ==
  /\ handlers' = [handlers EXCEPT ![id].pc = at, ![id].exc = msg]
  /\ microtasks' = Append(microtasks, id)
  /\ running' = 0

\* the control side posts a message to the worker
WL_postMessage ==
  /\ impl = "worker"
  /\ Len(handlers) < MaxMessages
  /\ \E type \in MessageTypes :
       handlers' = Append(handlers, Handler(type, "queued"))
  /\ taskQueue' = Append(taskQueue, Len(handlers) + 1)
  /\ UNCHANGED <<microtasks, running, responses, sessions, created, uses,
                 initialized, notLoopVars>>

\* faulty variant (breaks C21): a message is dispatched while a continuation is still queued
WL_handleMessage_BeforeMicrotasks ==
  /\ running = 0
  /\ taskQueue # <<>>
  /\ LET id == Head(taskQueue) IN
       /\ handlers' = [handlers EXCEPT ![id].pc = Entry(handlers[id].type)]
       /\ running' = id
  /\ taskQueue' = Tail(taskQueue)
  /\ UNCHANGED <<microtasks, responses, sessions, created, uses,
                 initialized, notLoopVars>>

\* the event loop dispatches the oldest message: handleMessage starts
WL_handleMessage ==
  /\ running = 0
  /\ microtasks = <<>>
  /\ taskQueue # <<>>
  /\ LET id == Head(taskQueue) IN
       /\ handlers' = [handlers EXCEPT ![id].pc = Entry(handlers[id].type)]
       /\ running' = id
  /\ taskQueue' = Tail(taskQueue)
  /\ UNCHANGED <<microtasks, responses, sessions, created, uses,
                 initialized, notLoopVars>>

\* init() up to its first wait
WL_init ==
  /\ running # 0
  /\ handlers[running].pc = "init"
  /\ IF initialized
     THEN /\ responses' = Append(responses, Response(running, "ready"))
          /\ AwaitSettled(running, "awaitHandler", NoExc)
     ELSE /\ handlers' = [handlers EXCEPT ![running].pc = "awaitImport"]
          /\ running' = 0
          /\ UNCHANGED <<responses, microtasks>>
  /\ UNCHANGED <<taskQueue, sessions, created, uses, initialized,
                 notLoopVars>>

\* the module has loaded, or failed to: the rest of init()
WL_importSettled ==
  /\ running = 0
  /\ microtasks = <<>>
  /\ \E id \in DOMAIN handlers, ok \in BOOLEAN :
       /\ handlers[id].pc = "awaitImport"
       /\ IF ok
          THEN /\ initialized' = TRUE
               /\ responses' = Append(responses, Response(id, "ready"))
               /\ handlers' = [handlers EXCEPT
                    ![id].pc = "awaitHandler", ![id].loads = 1]
               /\ microtasks' = Append(microtasks, id)
               /\ running' = 0
          ELSE /\ AwaitSettled(id, "awaitHandler", InitFailedMsg("worker"))
               /\ UNCHANGED <<initialized, responses>>
  /\ UNCHANGED <<taskQueue, sessions, created, uses, notLoopVars>>

\* faulty variant (breaks C32): processAudio does not test `initialized`
WL_processAudio_NoTest ==
  /\ running # 0
  /\ handlers[running].pc = "processAudio"
  /\ IF FALSE
     THEN /\ AwaitSettled(running, "awaitHandler", NotInitializedMsg("worker"))
          /\ UNCHANGED <<responses, sessions, created, uses>>
     ELSE \E outcome \in {"noShift", "null", "created", "configThrows"} :
            CASE outcome = "noShift" ->
                   /\ responses' =
                        Append(responses, Response(running, "complete"))
                   /\ AwaitSettled(running, "awaitHandler", NoExc)
                   /\ UNCHANGED <<sessions, created, uses>>
              [] outcome = "null" ->
                   /\ AwaitSettled(running, "awaitHandler", CreateFailedMsg)
                   /\ UNCHANGED <<responses, sessions, created, uses>>
              [] outcome = "created" ->
                   /\ created' = created + 1
                   /\ sessions' = sessions \cup {created + 1}
                   /\ uses' = uses \cup {<<running, created + 1>>}
                   /\ handlers' = [handlers EXCEPT
                                     ![running].pc = "study",
                                     ![running].stretcher = created + 1]
                   /\ UNCHANGED <<responses, microtasks, running>>
              [] outcome = "configThrows" ->
                   \* a configuration call traps: the finally block deletes
                   /\ created' = created + 1
                   /\ uses' = uses \cup {<<running, created + 1>>}
                   /\ AwaitSettled(running, "awaitHandler",
                                   EngineMsg("rubberband_set_time_ratio"))
                   /\ UNCHANGED <<responses, sessions>>
  /\ UNCHANGED <<taskQueue, initialized, notLoopVars>>

\* processAudio up to the call of processAudioWithStudy
WL_processAudio ==
  /\ running # 0
  /\ handlers[running].pc = "processAudio"
  /\ IF ~initialized
     THEN /\ AwaitSettled(running, "awaitHandler", NotInitializedMsg("worker"))
          /\ UNCHANGED <<responses, sessions, created, uses>>
     ELSE \E outcome \in {"noShift", "null", "created", "configThrows"} :
            CASE outcome = "noShift" ->
                   /\ responses' =
                        Append(responses, Response(running, "complete"))
                   /\ AwaitSettled(running, "awaitHandler", NoExc)
                   /\ UNCHANGED <<sessions, created, uses>>
              [] outcome = "null" ->
                   /\ AwaitSettled(running, "awaitHandler", CreateFailedMsg)
                   /\ UNCHANGED <<responses, sessions, created, uses>>
              [] outcome = "created" ->
                   /\ created' = created + 1
                   /\ sessions' = sessions \cup {created + 1}
                   /\ uses' = uses \cup {<<running, created + 1>>}
                   /\ handlers' = [handlers EXCEPT
                                     ![running].pc = "study",
                                     ![running].stretcher = created + 1]
                   /\ UNCHANGED <<responses, microtasks, running>>
              [] outcome = "configThrows" ->
                   \* a configuration call traps: the finally block deletes
                   /\ created' = created + 1
                   /\ uses' = uses \cup {<<running, created + 1>>}
                   /\ AwaitSettled(running, "awaitHandler",
                                   EngineMsg("rubberband_set_time_ratio"))
                   /\ UNCHANGED <<responses, sessions>>
  /\ UNCHANGED <<taskQueue, initialized, notLoopVars>>

\* processAudioWithStudy: one pass over the input (study, then process),
\* with its progress responses, or a trap that ends the function
WL_pass ==
  /\ running # 0
  /\ handlers[running].pc \in {"study", "process"}
  /\ uses' = uses \cup {<<running, handlers[running].stretcher>>}
  /\ \E ok \in BOOLEAN :
       IF ok
       THEN /\ responses' = Append(responses, Response(running, "progress"))
            /\ IF handlers[running].pc = "study"
               THEN /\ handlers' = [handlers EXCEPT ![running].pc = "process"]
                    /\ UNCHANGED <<microtasks, running>>
               ELSE AwaitSettled(running, "awaitStudy", NoExc)
       ELSE /\ AwaitSettled(running, "awaitStudy",
                            EngineMsg("rubberband_" \o handlers[running].pc))
            /\ UNCHANGED responses
  /\ UNCHANGED <<taskQueue, sessions, created, initialized, notLoopVars>>

\* processAudio after `await this.processAudioWithStudy(...)`: the complete
\* response, and rubberband_delete in the finally block
WL_afterStudy ==
  /\ running = 0
  /\ microtasks # <<>>
  /\ LET id == Head(microtasks) IN
       /\ handlers[id].pc = "awaitStudy"
       /\ responses' = IF handlers[id].exc = NoExc
                       THEN Append(responses, Response(id, "complete"))
                       ELSE responses
       /\ sessions' = sessions \ {handlers[id].stretcher}
       /\ uses' = uses \cup {<<id, handlers[id].stretcher>>}
       /\ \E deleteThrows \in BOOLEAN :
            handlers' = [handlers EXCEPT
              ![id].pc = "awaitHandler",
              ![id].exc = IF deleteThrows THEN EngineMsg("rubberband_delete")
                          ELSE handlers[id].exc]
       /\ microtasks' = Append(Tail(microtasks), id)
  /\ UNCHANGED <<taskQueue, running, created, initialized, notLoopVars>>

\* handleMessage after its await: the catch block posts the error
WL_afterHandler ==
  /\ running = 0
  /\ microtasks # <<>>
  /\ LET id == Head(microtasks) IN
       /\ handlers[id].pc = "awaitHandler"
       /\ responses' = IF handlers[id].exc = NoExc THEN responses
                       ELSE Append(responses, Response(id, "error"))
       /\ handlers' = [handlers EXCEPT ![id].pc = "done"]
  /\ microtasks' = Tail(microtasks)
  /\ UNCHANGED <<taskQueue, running, sessions, created, uses, initialized,
                 notLoopVars>>

EventLoopNext ==
  \/ WL_postMessage \/ WL_handleMessage \/ WL_init \/ WL_importSettled
  \/ WL_processAudio \/ WL_pass \/ WL_afterStudy \/ WL_afterHandler

EventLoopSpecInit ==
  /\ UIInit
  /\ impl = "worker"
  /\ initialized = FALSE
  /\ EngineInit
  /\ WavInit

EventLoopSpec == EventLoopSpecInit /\ [][EventLoopNext]_vars

\* ================================================== the FFmpeg channel
\* class FFmpeg (the control side) and its embedded worker. A request is a
\* promise whose resolve and reject functions are stored under the id of the
\* message; the worker answers each message with a response of the same id.
notFFVars ==
  <<initialized, pc, exc, stretcher, outputChunks, result, retrievals, phase,
    calls, posts, impl, uiVars, eventLoopVars, inputLength, channels,
    semitones, sampleRate, nonFinite, loopVars, bufVars, arenaVars, wavVars,
    exporterVars, decoderVars>>

\* `Date.now() + Math.random()`: some number, not necessarily a new one
Ids == 1..MaxIds

RequestTypes == {"EXEC", "WRITE_FILE", "READ_FILE"}

\* the events of the worker, and the id of a message that has none
\* (undefined)
EventTypes == {"LOG", "PROGRESS"}
\* the operations the worker carries out on the loaded core
OperationTypes == {"EXEC", "WRITE_FILE", "READ_FILE", "DELETE_FILE"}
NoId == 0

\* a promise: its state, the data (named after the request that produced
\* them) it was resolved with, the reason it was rejected with, and whether
\* an abort signal that has not fired yet is attached
Promise(state, reason, signal) ==
  [state |-> state, value |-> 0, reason |-> reason, signal |-> signal]

\* obj[id] = p
Put(obj, id, p) ==
  [k \in DOMAIN obj \cup {id} |-> IF k = id THEN p ELSE obj[k]]
\* delete obj[id]
Delete(obj, id) == [k \in DOMAIN obj \ {id} |-> obj[k]]

\* calling the resolve / reject function of promise p: a settled promise
\* stays as it is
Resolve(ps, p, data) ==
  IF ps[p].state = "pending"
  THEN [ps EXCEPT ![p].state = "resolved", ![p].value = data]
  ELSE ps
Reject(ps, p, reason) ==
  IF ps[p].state = "pending"
  THEN [ps EXCEPT ![p].state = "rejected", ![p].reason = reason]
  ELSE ps

\* #send: the promise, the message to the worker and the stored callbacks
Send(type, signal) ==
  IF worker' = 0
  THEN /\ promises' =
            Append(promises, Promise("rejected", "ffmpeg is not loaded", FALSE))
       /\ UNCHANGED <<resolves, rejects, workerInbox>>
  ELSE \E id \in Ids :
         LET p == Len(promises) + 1 IN
           /\ promises' = Append(promises, Promise("pending", "", signal))
           /\ workerInbox' =
                Append(workerInbox, [id |-> id, type |-> type, data |-> p])
           /\ resolves' = Put(resolves, id, p)
           /\ rejects' = Put(rejects, id, p)

\* load(): creates the worker if there is none, then sends LOAD
FF_load ==
  /\ Len(promises) < MaxRequests
  /\ worker' = 1
  /\ \E signal \in BOOLEAN : Send("LOAD", signal)
  /\ UNCHANGED <<loaded, ffmpeg, workerOutbox, workerLoads,
                 notFFVars>>

\* exec / writeFile / readFile
FF_send ==
  /\ Len(promises) < MaxRequests
  /\ UNCHANGED worker
  /\ \E type \in RequestTypes, signal \in BOOLEAN : Send(type, signal)
  /\ UNCHANGED <<loaded, ffmpeg, workerOutbox, workerLoads,
                 notFFVars>>

\* the abort signal of a request fires (its listener runs once)
FF_abort ==
  /\ \E p \in DOMAIN promises :
       /\ promises[p].signal
       /\ promises' =
            [Reject(promises, p, "AbortError") EXCEPT ![p].signal = FALSE]
  /\ UNCHANGED <<worker, loaded, resolves, rejects, ffmpeg, workerInbox,
                 workerOutbox, workerLoads,
                 notFFVars>>

\* the logger and the progress callback that load() installs in the core:
\* each posts an event, a message without an id
FF_workerEvent ==
  /\ worker # 0
  /\ ffmpeg
  /\ Cardinality({k \in DOMAIN workerOutbox :
                    workerOutbox[k].type \in EventTypes}) < MaxEvents
  /\ \E type \in EventTypes :
       workerOutbox' =
         Append(workerOutbox, [id |-> NoId, type |-> type, data |-> 0])
  /\ UNCHANGED <<worker, loaded, resolves, rejects, promises, ffmpeg,
                 workerInbox, workerLoads,
                 notFFVars>>

\* a sequence without its k-th element
RemoveAt(seq, k) == SubSeq(seq, 1, k - 1) \o SubSeq(seq, k + 1, Len(seq))

\* faulty variant (breaks C38): a message of an unknown type is answered
\* like a request that was carried out
FF_workerOnmessage_NoDefault ==
  /\ worker # 0
  /\ workerInbox # <<>>
  /\ LET m == Head(workerInbox) IN
       IF m.type # "LOAD" /\ ~ffmpeg
       THEN /\ workerOutbox' = Append(workerOutbox, [m EXCEPT !.type = "ERROR"])
            /\ UNCHANGED workerLoads
       ELSE IF m.type = "LOAD"
       THEN /\ workerLoads' = Append(workerLoads, m)
            /\ UNCHANGED workerOutbox
       ELSE /\ \E ok \in BOOLEAN :
                 workerOutbox' =
                   Append(workerOutbox,
                          [m EXCEPT !.type = IF ok THEN m.type ELSE "ERROR"])
            /\ UNCHANGED workerLoads
  /\ workerInbox' = Tail(workerInbox)
  /\ UNCHANGED <<worker, loaded, resolves, rejects, promises, ffmpeg,
                 notFFVars>>

\* self.onmessage of the worker, for its oldest message: up to the response
\* it posts, or up to `await load(_data)` for a LOAD request
FF_workerOnmessage ==
  /\ worker # 0
  /\ workerInbox # <<>>
  /\ LET m == Head(workerInbox) IN
       IF m.type # "LOAD" /\ ~ffmpeg
       THEN /\ workerOutbox' = Append(workerOutbox, [m EXCEPT !.type = "ERROR"])
            /\ UNCHANGED workerLoads
       ELSE IF m.type = "LOAD"
       THEN /\ workerLoads' = Append(workerLoads, m)
            /\ UNCHANGED workerOutbox
       ELSE IF m.type \in OperationTypes
       THEN /\ \E ok \in BOOLEAN :
                 workerOutbox' =
                   Append(workerOutbox,
                          [m EXCEPT !.type = IF ok THEN m.type ELSE "ERROR"])
            /\ UNCHANGED workerLoads
       ELSE /\ workerOutbox' = Append(workerOutbox, [m EXCEPT !.type = "ERROR"])
            /\ UNCHANGED workerLoads
  /\ workerInbox' = Tail(workerInbox)
  /\ UNCHANGED <<worker, loaded, resolves, rejects, promises, ffmpeg,
                 notFFVars>>

\* self.onmessage of the worker after `await load(_data)`: load has created
\* the core, or has thrown
FF_workerLoadSettled ==
  /\ worker # 0
  /\ \E k \in DOMAIN workerLoads, ok \in BOOLEAN :
       LET m == workerLoads[k] IN
         /\ workerLoads' = RemoveAt(workerLoads, k)
         /\ workerOutbox' =
              Append(workerOutbox,
                     [m EXCEPT !.type = IF ok THEN "LOAD" ELSE "ERROR"])
         /\ ffmpeg' = (ffmpeg \/ ok)
  /\ UNCHANGED <<worker, loaded, resolves, rejects, promises, workerInbox,
                 notFFVars>>

\* this.#worker.onmessage: a message of the worker is delivered to the
\* page. Calling a callback that is not stored throws, which ends the
\* handler; otherwise the entries under the id of the message are deleted,
\* whatever its type.
FF_onmessage ==
  /\ workerOutbox # <<>>
  /\ LET m == Head(workerOutbox) IN
       /\ loaded' = (loaded \/ m.type = "LOAD")
       /\ IF m.type \in EventTypes
          THEN /\ UNCHANGED promises
               /\ resolves' = Delete(resolves, m.id)
               /\ rejects' = Delete(rejects, m.id)
          ELSE IF m.id \in DOMAIN resolves
          THEN /\ promises' =
                    IF m.type = "ERROR"
                    THEN Reject(promises, rejects[m.id], "error")
                    ELSE Resolve(promises, resolves[m.id], m.data)
               /\ resolves' = Delete(resolves, m.id)
               /\ rejects' = Delete(rejects, m.id)
          ELSE UNCHANGED <<promises, resolves, rejects>>
  /\ workerOutbox' = Tail(workerOutbox)
  /\ UNCHANGED <<worker, ffmpeg, workerInbox, workerLoads,
                 notFFVars>>

\* terminate(): every stored reject function is called and dropped, and the
\* worker is ended. Whether the responses the worker had posted already are
\* still delivered is up to the platform.
FF_terminate ==
  /\ promises' =
       [p \in DOMAIN promises |->
          IF \E id \in DOMAIN rejects : rejects[id] = p
          THEN Reject(promises, p, "terminated")[p]
          ELSE promises[p]]
  /\ resolves' = <<>>
  /\ rejects' = <<>>
  /\ IF worker # 0
     THEN /\ worker' = 0
          /\ loaded' = FALSE
          /\ ffmpeg' = FALSE
          /\ workerInbox' = <<>>
          /\ workerLoads' = <<>>
          /\ workerOutbox' \in {workerOutbox, <<>>}
     ELSE UNCHANGED <<worker, loaded, ffmpeg, workerInbox, workerOutbox,
                      workerLoads>>
  /\ UNCHANGED notFFVars

FFmpegNext ==
  \/ FF_load \/ FF_send \/ FF_abort \/ FF_workerEvent \/ FF_workerOnmessage
  \/ FF_workerLoadSettled \/ FF_onmessage \/ FF_terminate

FFmpegSpecInit ==
  /\ UIInit
  /\ impl = "main"
  /\ initialized = TRUE
  /\ EngineInit
  /\ WavInit

FFmpegSpec == FFmpegSpecInit /\ [][FFmpegNext]_vars

\* ------------------------------------------- the worker on its own
\* The embedded worker with the messages that can be posted to it: a
\* request of any type, known to the worker or not, under any id.
WorkerMessageTypes == {"LOAD"} \cup OperationTypes \cup {"RENAME"}

\* the requests the worker has received so far: those waiting, those whose
\* load is awaited and those answered
Received ==
  Len(workerInbox) + Len(workerLoads)
    + Cardinality({k \in DOMAIN workerOutbox :
                     workerOutbox[k].type \notin EventTypes})

\* a message event for the worker; its data is the number of the request
FFW_message ==
  /\ Received < MaxRequests
  /\ worker' = 1
  /\ \E id \in Ids, type \in WorkerMessageTypes :
       workerInbox' =
         Append(workerInbox, [id |-> id, type |-> type, data |-> Received + 1])
  /\ UNCHANGED <<loaded, resolves, rejects, promises, ffmpeg, workerOutbox,
                 workerLoads, notFFVars>>

FFWorkerNext ==
  \/ FFW_message \/ FF_workerOnmessage \/ FF_workerLoadSettled
  \/ FF_workerEvent

FFWorkerSpec == FFmpegSpecInit /\ [][FFWorkerNext]_vars

\* ===================================================== the WAV encoder
\* audioBufferToWav, which AudioExporter and UIController both define, with
\* the same body: a 44-byte header and the samples as 16-bit integers.
notWavVars ==
  <<initialized, pc, exc, stretcher, outputChunks, result, retrievals, phase,
    calls, posts, impl, uiVars, eventLoopVars, ffVars, exporterVars,
    decoderVars,
    inputLength, channels, semitones, sampleRate, nonFinite, loopVars,
    bufVars, arenaVars>>

\* sample values, in thousandths: below -1, inside [-1, 1], above 1
SampleValues == <<0 - 1500, 250, 1200>>
\* a channel's samples: the three values in turn, from the one at `shift`
ChannelData(shift, length) ==
  [i \in 1..length |-> SampleValues[((i + shift) % 3) + 1]]
SampleRates == {ValidSampleRate, 48000}

\* byte k of the little-endian representation of x >= 0
Byte(x, k) == (x \div (256 ^ k)) % 256
\* DataView.setUint32 / setUint16 / setInt16 with littleEndian = true: the
\* bytes written (the value is taken modulo 2^32, 2^16)
Uint32(x) == <<Byte(x, 0), Byte(x, 1), Byte(x, 2), Byte(x, 3)>>
Uint16(x) == <<Byte(x, 0), Byte(x, 1)>>
Int16(x) == Uint16(x % 65536)

\* the character codes of the four header strings
RIFF == <<82, 73, 70, 70>>
WAVE == <<87, 65, 86, 69>>
fmt  == <<102, 109, 116, 32>>
data == <<100, 97, 116, 97>>

\* the view after `bytes` have been written at byte offset `offset`
Set(view, offset, bytes) ==
  [j \in DOMAIN view |->
     IF offset < j /\ j <= offset + Len(bytes) THEN bytes[j - offset]
     ELSE view[j]]

\* Math.max(-1, Math.min(1, x)) * 0x7FFF, as setInt16 converts it: the
\* fraction is dropped
Truncate(num, den) ==
  IF num >= 0 THEN num \div den ELSE 0 - ((0 - num) \div den)
Clamp(x) == IF x < 0 - 1000 THEN 0 - 1000 ELSE IF x > 1000 THEN 1000 ELSE x
Sample16(x) == Truncate(Clamp(x) * 32767, 1000)

\* faulty variant (breaks C28): the samples are written channel after channel
RECURSIVE WriteSamples_Planar(_, _, _, _, _)
WriteSamples_Planar(view, buf, i, channel, offset) ==
  IF channel > buf.numberOfChannels \/ buf.length = 0 THEN view
  ELSE WriteSamples_Planar(
         Set(view, offset, Int16(Sample16(buf.data[channel][i]))), buf,
         IF i < buf.length THEN i + 1 ELSE 1,
         IF i < buf.length THEN channel ELSE channel + 1,
         offset + 2)

\* the two loops that write the samples: frame i, then channel
RECURSIVE WriteSamples(_, _, _, _, _)
WriteSamples(view, buf, i, channel, offset) ==
  IF i > buf.length \/ buf.numberOfChannels = 0 THEN view
  ELSE WriteSamples(
         Set(view, offset, Int16(Sample16(buf.data[channel][i]))), buf,
         IF channel < buf.numberOfChannels THEN i ELSE i + 1,
         IF channel < buf.numberOfChannels THEN channel + 1 ELSE 1,
         offset + 2)

audioBufferToWav(buf) ==
  LET bytesPerSample == 2
      blockAlign == buf.numberOfChannels * bytesPerSample
      byteRate == buf.sampleRate * blockAlign
      dataSize == buf.length * blockAlign
      bufferSize == 44 + dataSize
      v0  == [j \in 1..bufferSize |-> 0]
      v1  == Set(v0, 0, RIFF)
      v2  == Set(v1, 4, Uint32(bufferSize - 8))
      v3  == Set(v2, 8, WAVE)
      v4  == Set(v3, 12, fmt)
      v5  == Set(v4, 16, Uint32(16))
      v6  == Set(v5, 20, Uint16(1))
      v7  == Set(v6, 22, Uint16(buf.numberOfChannels))
      v8  == Set(v7, 24, Uint32(buf.sampleRate))
      v9  == Set(v8, 28, Uint32(byteRate))
      v10 == Set(v9, 32, Uint16(blockAlign))
      v11 == Set(v10, 34, Uint16(16))
      v12 == Set(v11, 36, data)
      v13 == Set(v12, 40, Uint32(dataSize))
  IN  WriteSamples(v13, buf, 1, 1, 44)

\* AudioExporter.exportToWAV
Wav_exportToWAV ==
  /\ audioBuffer.numberOfChannels > 0
  /\ wav' = audioBufferToWav(audioBuffer)
  /\ encoder' = "AudioExporter"
  /\ UNCHANGED <<audioBuffer, notWavVars>>

\* UIController.createAudioFromBuffer
Wav_createAudioFromBuffer ==
  /\ audioBuffer.numberOfChannels > 0
  /\ wav' = audioBufferToWav(audioBuffer)
  /\ encoder' = "UIController"
  /\ UNCHANGED <<audioBuffer, notWavVars>>

WavNext == Wav_exportToWAV \/ Wav_createAudioFromBuffer

WavSpecInit ==
  /\ UIInit
  /\ impl = "main"
  /\ initialized = TRUE
  /\ EngineInit
  /\ \E length \in 0..MaxFrames, numberOfChannels \in 1..MaxChannels,
        rate \in SampleRates :
       \E shift \in [1..numberOfChannels -> 0..2] :
         audioBuffer =
           AudioBuffer(length, numberOfChannels, rate,
                       [c \in 1..numberOfChannels |->
                          ChannelData(shift[c], length)])
  /\ wav = <<>>
  /\ encoder = ""

WavSpec == WavSpecInit /\ [][WavNext]_vars

\* ============================================ the worker's loops, bare
\* The control flow of processAudioWithStudy and tryRetrieveOutput without
\* the logs and the arena, and without a limit on what the engine reports:
\* rubberband_available may return any count, any number of times.
notLoopCtl ==
  <<initialized, stretcher, outputChunks, result, retrievals, phase, calls,
    fixedVars, channels, semitones, sampleRate, nonFinite, ch, bufVars,
    arenaVars>>

\* processAudio up to the loops: creation, configuration and the input
\* buffers, any of which may throw
T_processAudio ==
  /\ pc = "idle"
  /\ impl = "worker"
  /\ \E n \in 0..MaxInputLength : inputLength' = n
  /\ posts' = <<>>
  /\ read' = 0
  /\ final' = FALSE
  /\ available' = 0
  /\ \/ \E sr \in 1..MaxSamplesRequired :
          /\ samplesRequired' = sr
          /\ exc' = NoExc
          /\ pc' = "t_studyLoop"
     \/ /\ samplesRequired' = 0
        /\ exc' = EngineMsg("rubberband_new")
        /\ pc' = "t_catch"
  /\ UNCHANGED notLoopCtl

T_studyLoop ==
  /\ pc = "t_studyLoop"
  /\ IF read < inputLength
     THEN \/ /\ read' = read + ChunkSize(read)
             /\ UNCHANGED <<pc, exc>>
          \/ /\ exc' = EngineMsg("rubberband_study")
             /\ pc' = "t_catch"
             /\ UNCHANGED read
     ELSE /\ read' = 0
          /\ pc' = "t_processLoop"
          /\ UNCHANGED exc
  /\ UNCHANGED <<inputLength, samplesRequired, final, available, posts,
                 notLoopCtl>>

T_processLoop ==
  /\ pc = "t_processLoop"
  /\ IF read < inputLength
     THEN \/ /\ final' = FALSE
             /\ pc' = "t_available"
             /\ UNCHANGED exc
          \/ /\ exc' = EngineMsg("rubberband_process")
             /\ pc' = "t_catch"
             /\ UNCHANGED final
     ELSE /\ final' = TRUE
          /\ pc' = "t_available"
          /\ UNCHANGED exc
  /\ UNCHANGED <<inputLength, samplesRequired, read, available, posts,
                 notLoopCtl>>

\* head of tryRetrieveOutput's loop
T_available ==
  /\ pc = "t_available"
  /\ \/ \E a \in 0..MaxAvailable :
          /\ available' = a
          /\ UNCHANGED exc
          /\ IF StopRetrieving(a)
             THEN IF final
                  THEN /\ pc' = "t_postComplete"
                       /\ UNCHANGED read
                  ELSE /\ read' = read + ChunkSize(read)
                       /\ pc' = "t_processLoop"
             ELSE /\ pc' = "t_retrieve"
                  /\ UNCHANGED read
     \/ /\ exc' = EngineMsg("rubberband_available")
        /\ pc' = "t_catch"
        /\ UNCHANGED <<available, read>>
  /\ UNCHANGED <<inputLength, samplesRequired, final, posts, notLoopCtl>>

\* body of tryRetrieveOutput's loop: whatever rubberband_retrieve returns,
\* the loop goes back to its head
T_retrieve ==
  /\ pc = "t_retrieve"
  /\ \/ /\ \E retrieved \in 0..Min(samplesRequired, available) :
             pc' = "t_available"
        /\ UNCHANGED exc
     \/ /\ exc' = EngineMsg("rubberband_retrieve")
        /\ pc' = "t_catch"
  /\ UNCHANGED <<inputLength, samplesRequired, read, final, available, posts,
                 notLoopCtl>>

\* the complete response, then rubberband_delete in the finally
T_postComplete ==
  /\ pc = "t_postComplete"
  /\ \/ /\ posts' = <<CompletePost(<<>>)>>
        /\ UNCHANGED exc
     \/ /\ posts' = <<CompletePost(<<>>),
                      ErrorPost(EngineMsg("rubberband_delete"))>>
        /\ UNCHANGED exc
  /\ pc' = "done"
  /\ UNCHANGED <<inputLength, samplesRequired, read, final, available,
                 notLoopCtl>>

\* catch of handleMessage
T_catch ==
  /\ pc = "t_catch"
  /\ posts' = <<ErrorPost(exc)>>
  /\ exc' = NoExc
  /\ pc' = "done"
  /\ UNCHANGED <<inputLength, samplesRequired, read, final, available,
                 notLoopCtl>>

\* the handler has returned
T_return ==
  /\ pc = "done"
  /\ pc' = "idle"
  /\ UNCHANGED <<inputLength, samplesRequired, read, final, available, exc,
                 posts, notLoopCtl>>

TerminationNext ==
  \/ T_processAudio \/ T_studyLoop \/ T_processLoop \/ T_available
  \/ T_retrieve \/ T_postComplete \/ T_catch \/ T_return

TerminationSpecInit ==
  /\ UIInit
  /\ impl = "worker"
  /\ initialized = TRUE
  /\ EngineInit
  /\ WavInit

\* the handler, once started, keeps running: JavaScript does not preempt it
TerminationSpec ==
  TerminationSpecInit /\ [][TerminationNext]_vars /\ WF_vars(TerminationNext)

\* ===================================================== AudioExporter
\* The exporter that encodes with FFmpeg. Every call is an activation of an
\* async method; between two of its waits other activations may run.
notExporterVars ==
  <<pc, exc, stretcher, outputChunks, result, retrievals, phase, calls,
    posts, impl, uiVars, eventLoopVars, ffVars, wavVars, decoderVars,
    inputLength,
    channels, semitones, sampleRate, nonFinite, loopVars, bufVars, arenaVars>>

ExporterOps == {"init", "exportToWAV", "exportToMP3", "exportToM4A"}

ExporterNotInitializedMsg == <<"Audio exporter not initialized">>
WavFailedMsg == <<"WAV export failed: ", "audioBufferToWav">>
LoadFailedMsg == <<"Failed to load FFmpeg: ", "load">>
EncodeFailedMsg(stage) == <<"Failed to encode: ", stage>>
PcmFailedMsg == <<"audioBufferToPCM">>

\* one call: the method, where it waits, what its promise settled with
\* ("" = pending; "void", "wav", "mp3", "m4a" = resolved; "rejected"), the
\* error, the FFmpeg operations it issued and the instance whose load it
\* awaits
Export(op, at, settled, msg, ops) ==
  [op |-> op, pc |-> at, settled |-> settled, exc |-> msg, ffmpegOps |-> ops,
   loading |-> 0]

\* call e after it has issued FFmpeg operation o
Issued(e, o) == [e EXCEPT !.ffmpegOps = Append(@, o)]

\* the format a method encodes to
Format(op) == IF op = "exportToMP3" THEN "mp3" ELSE "m4a"

\* where a method goes on once ensureFFmpegLoaded has returned
AfterLoaded(op) == IF op = "exportToM4A" THEN "codecs" ELSE "writeFile"

\* faulty variant (breaks C36): exportToMP3 rethrows as exportToM4A does
Caught_Rethrow(e, msg, wavOk) ==
  [e EXCEPT !.pc = "done", !.settled = "rejected", !.exc = msg]

\* the catch block of the method of call e, entered with msg; wavOk is
\* whether audioBufferToWav returns
Caught(e, msg, wavOk) ==
  IF e.op = "exportToMP3"
  THEN IF wavOk
       THEN [e EXCEPT !.pc = "done", !.settled = "wav", !.exc = msg]
       ELSE [e EXCEPT !.pc = "done", !.settled = "rejected",
                      !.exc = WavFailedMsg]
  ELSE [e EXCEPT !.pc = "done", !.settled = "rejected", !.exc = msg]

\* a method is called: it runs up to its first wait
EX_call ==
  /\ impl = "exporter"
  /\ Len(exports) < MaxCalls
  /\ \E op \in ExporterOps, wavOk \in BOOLEAN :
       CASE op = "init" ->
              /\ initialized' = TRUE
              /\ exports' = Append(exports, Export(op, "done", "void", NoExc, <<>>))
         [] op # "init" /\ ~initialized ->
              /\ exports' =
                   Append(exports,
                          Export(op, "done", "rejected",
                                 ExporterNotInitializedMsg, <<>>))
              /\ UNCHANGED initialized
         [] op = "exportToWAV" /\ initialized ->
              /\ exports' =
                   Append(exports,
                          IF wavOk THEN Export(op, "done", "wav", NoExc, <<>>)
                          ELSE Export(op, "done", "rejected", WavFailedMsg,
                                      <<>>))
              /\ UNCHANGED initialized
         [] OTHER ->
              /\ exports' =
                   Append(exports,
                          IF exporterFfmpeg # 0
                          THEN Export(op, AfterLoaded(op), "", NoExc, <<>>)
                          ELSE Export(op, "import", "", NoExc, <<"import">>))
              /\ UNCHANGED initialized
  /\ UNCHANGED <<exporterFfmpeg, ffmpegs, notExporterVars>>

\* ensureFFmpegLoaded after `await import("@ffmpeg/ffmpeg")`: a new FFmpeg
\* is stored in this.ffmpeg and its load() is awaited
EX_importSettled ==
  /\ \E i \in DOMAIN exports, ok \in BOOLEAN, wavOk \in BOOLEAN :
       /\ exports[i].pc = "import"
       /\ IF ok
          THEN /\ ffmpegs' = Append(ffmpegs, "loading")
               /\ exporterFfmpeg' = Len(ffmpegs) + 1
               /\ exports' = [exports EXCEPT
                    ![i].pc = "load",
                    ![i].loading = Len(ffmpegs) + 1,
                    ![i].ffmpegOps = Append(@, "load")]
          ELSE /\ exports' =
                    [exports EXCEPT ![i] = Caught(@, LoadFailedMsg, wavOk)]
               /\ UNCHANGED <<exporterFfmpeg, ffmpegs>>
  /\ UNCHANGED <<initialized, notExporterVars>>

\* ensureFFmpegLoaded after `await this.ffmpeg.load()`
EX_loadSettled ==
  /\ \E i \in DOMAIN exports, ok \in BOOLEAN, wavOk \in BOOLEAN :
       /\ exports[i].pc = "load"
       /\ ffmpegs' = [ffmpegs EXCEPT
            ![exports[i].loading] = IF ok THEN "loaded" ELSE "failed"]
       /\ exports' =
            IF ok THEN [exports EXCEPT ![i].pc = AfterLoaded(exports[i].op)]
            ELSE [exports EXCEPT ![i] = Caught(@, LoadFailedMsg, wavOk)]
  /\ UNCHANGED <<initialized, exporterFfmpeg, notExporterVars>>

\* whether a request to the instance in this.ffmpeg may be answered:
\* never by an instance whose load has failed
MayAnswer(ok) == ok => ffmpegs[exporterFfmpeg] # "failed"

\* exportToM4A: checkAvailableCodecs runs `-codecs` and swallows a failure
EX_codecs ==
  /\ \E i \in DOMAIN exports :
       /\ exports[i].pc = "codecs"
       /\ exports' = [exports EXCEPT
            ![i].pc = "writeFile", ![i].ffmpegOps = Append(@, "exec")]
  /\ UNCHANGED <<initialized, exporterFfmpeg, ffmpegs, notExporterVars>>

\* audioBufferToPCM, then encodeWithFFmpeg up to the end of its writeFile
EX_writeFile ==
  /\ \E i \in DOMAIN exports, wavOk \in BOOLEAN,
        outcome \in {"ok", "pcmThrows", "writeFails"} :
       /\ exports[i].pc = "writeFile"
       /\ MayAnswer(outcome = "ok")
       /\ exports' =
            CASE outcome = "ok" ->
                   [exports EXCEPT
                      ![i].pc = "exec",
                      ![i].ffmpegOps = Append(@, "writeFile")]
              [] outcome = "pcmThrows" ->
                   [exports EXCEPT ![i] = Caught(@, PcmFailedMsg, wavOk)]
              [] OTHER ->
                   [exports EXCEPT
                      ![i] = Caught(Issued(exports[i], "writeFile"),
                                    EncodeFailedMsg("writeFile"), wavOk)]
  /\ UNCHANGED <<initialized, exporterFfmpeg, ffmpegs, notExporterVars>>

\* encodeWithFFmpeg: the encoding command
EX_exec ==
  /\ \E i \in DOMAIN exports, ok \in BOOLEAN, wavOk \in BOOLEAN :
       /\ exports[i].pc = "exec"
       /\ MayAnswer(ok)
       /\ exports' =
            IF ok
            THEN [exports EXCEPT
                    ![i].pc = "readFile", ![i].ffmpegOps = Append(@, "exec")]
            ELSE [exports EXCEPT
                    ![i] = Caught(Issued(exports[i], "exec"),
                                  EncodeFailedMsg("exec"), wavOk)]
  /\ UNCHANGED <<initialized, exporterFfmpeg, ffmpegs, notExporterVars>>

\* encodeWithFFmpeg: the output is read and returned as a Blob
EX_readFile ==
  /\ \E i \in DOMAIN exports, ok \in BOOLEAN, wavOk \in BOOLEAN :
       /\ exports[i].pc = "readFile"
       /\ MayAnswer(ok)
       /\ exports' =
            IF ok
            THEN [exports EXCEPT
                    ![i].pc = "done",
                    ![i].settled = Format(exports[i].op),
                    ![i].ffmpegOps = Append(@, "readFile")]
            ELSE [exports EXCEPT
                    ![i] = Caught(Issued(exports[i], "readFile"),
                                  EncodeFailedMsg("readFile"), wavOk)]
  /\ UNCHANGED <<initialized, exporterFfmpeg, ffmpegs, notExporterVars>>

ExporterNext ==
  \/ EX_call \/ EX_importSettled \/ EX_loadSettled \/ EX_codecs
  \/ EX_writeFile \/ EX_exec \/ EX_readFile

ExporterSpecInit ==
  /\ UIInit
  /\ impl = "exporter"
  /\ initialized = FALSE
  /\ EngineInit
  /\ WavInit

ExporterSpec == ExporterSpecInit /\ [][ExporterNext]_vars

\* ==================================================== AudioProcessor
\* decodeWithFFmpeg, the decoder decodeAudioFile falls back to. Every call
\* is an activation with an FFmpeg instance of its own.
notDecoderVars ==
  <<initialized, pc, exc, stretcher, outputChunks, result, retrievals, phase,
    calls, posts, impl, uiVars, eventLoopVars, ffVars, wavVars, exporterVars,
    inputLength, channels, semitones, sampleRate, nonFinite, loopVars,
    bufVars, arenaVars>>

\* one call: where it waits, its FFmpeg instance ("none" before
\* `new FFmpeg()`, "created", "running" once load() has started the worker,
\* "terminated") and what its promise settled with ("" = pending)
Decode(at, instance, settled) ==
  [pc |-> at, ffmpeg |-> instance, settled |-> settled]

\* the awaits inside the try block, in order
DecodeStages == <<"writeFile", "exec", "readFile", "decodeAudioData">>

\* the finally block, then the return or the rethrow
Finally(d, settled) ==
  [d EXCEPT !.pc = "done", !.settled = settled, !.ffmpeg = "terminated"]

\* decodeWithFFmpeg is called: up to `await import("@ffmpeg/ffmpeg")`
D_call ==
  /\ impl = "decoder"
  /\ Len(decodes) < MaxUploads
  /\ decodes' = Append(decodes, Decode("import", "none", ""))
  /\ UNCHANGED notDecoderVars

\* after the two imports: `new FFmpeg()`, then the URLs are awaited
D_importSettled ==
  /\ \E i \in DOMAIN decodes, ok \in BOOLEAN :
       /\ decodes[i].pc = "import"
       /\ decodes' =
            [decodes EXCEPT
               ![i] = IF ok THEN Decode("urls", "created", "")
                      ELSE Decode("done", "none", "rejected")]
  /\ UNCHANGED notDecoderVars

\* getFFmpegCoreURL and getFFmpegWasmURL have returned (neither throws):
\* ffmpeg.load() is called, which starts the worker
D_load ==
  /\ \E i \in DOMAIN decodes :
       /\ decodes[i].pc = "urls"
       /\ decodes' = [decodes EXCEPT ![i] = Decode("load", "running", "")]
  /\ UNCHANGED notDecoderVars

\* after `await ffmpeg.load(...)`, which is outside the try block
D_loadSettled ==
  /\ \E i \in DOMAIN decodes, ok \in BOOLEAN :
       /\ decodes[i].pc = "load"
       /\ decodes' =
            [decodes EXCEPT
               ![i] = IF ok THEN [@ EXCEPT !.pc = DecodeStages[1]]
                      ELSE [@ EXCEPT !.pc = "done", !.settled = "rejected"]]
  /\ UNCHANGED notDecoderVars

\* after an await of the try block: the next one, the return, or the throw
D_stageSettled ==
  /\ \E i \in DOMAIN decodes, k \in DOMAIN DecodeStages, ok \in BOOLEAN :
       /\ decodes[i].pc = DecodeStages[k]
       /\ decodes' =
            [decodes EXCEPT
               ![i] = IF ~ok THEN Finally(@, "rejected")
                      ELSE IF k < Len(DecodeStages)
                      THEN [@ EXCEPT !.pc = DecodeStages[k + 1]]
                      ELSE Finally(@, "resolved")]
  /\ UNCHANGED notDecoderVars

DecoderNext ==
  \/ D_call \/ D_importSettled \/ D_load \/ D_loadSettled \/ D_stageSettled

DecoderSpecInit ==
  /\ UIInit
  /\ impl = "decoder"
  /\ initialized = FALSE
  /\ EngineInit
  /\ WavInit

DecoderSpec == DecoderSpecInit /\ [][DecoderNext]_vars

\* ====================================== the three components together
\* One behaviour is of one component: the worker (as its event loop sees
\* it), PitchShifter or AudioExporter, each new and not initialized.
ComponentsNext == EventLoopNext \/ MainNext \/ ExporterNext

ComponentsSpecInit ==
  /\ UIInit
  /\ impl \in {"worker", "main", "exporter"}
  /\ initialized = FALSE
  /\ EngineInit
  /\ WavInit

ComponentsSpec == ComponentsSpecInit /\ [][ComponentsNext]_vars

\* ============================================================ properties
CallsOf(op) == SelectSeq(calls, LAMBDA c : c.op = op)
StudyCalls == CallsOf("rubberband_study")
ProcessCalls == CallsOf("rubberband_process")
DeleteCalls == CallsOf("rubberband_delete")
Threw(op) == \E i \in DOMAIN calls : calls[i].op = op /\ calls[i].threw
TerminalPosts == {i \in DOMAIN posts : IsTerminal(posts[i])}
ProgressPosts == SelectSeq(posts, LAMBDA p : p.type = "progress")
Completed ==
  pc = "done" /\ posts # <<>> /\ posts[Len(posts)].type = "complete"

\* C1: a request that created a session (rubberband_new returned a non-zero
\* handle) has called rubberband_delete on that handle exactly once when it
\* ends, whatever the exit path; delete is never called twice, and never on
\* anything but the created handle.
C1_DeletedExactlyOnce ==
  /\ Len(DeleteCalls) <= 1
  /\ \A i \in DOMAIN calls :
       calls[i].op = "rubberband_delete" =>
          stretcher # 0 /\ calls[i].h = stretcher
  /\ (pc = "done" /\ stretcher # 0) => Len(DeleteCalls) = 1

\* a request ended by a failed output-buffer allocation, session deleted once
C1_Witness ==
  /\ pc = "done"
  /\ stretcher # 0
  /\ retrievals > 0
  /\ posts[Len(posts)] = ErrorPost(IF impl = "worker" THEN OutOfMemoryMsg
                                   ELSE Wrap(OutOfMemoryMsg))
  /\ Len(DeleteCalls) = 1

\* C2 (as claimed): a 'process' message handled by the worker gets exactly
\* one terminal response, 'complete' or 'error', for every outcome of the
\* native calls, rubberband_delete included.
C2_ExactlyOneTerminal ==
  (impl = "worker" /\ pc = "done") => Cardinality(TerminalPosts) = 1

\* C3 (as claimed): when a request has ended, in success or in failure, no
\* arena allocation is live, every _malloc was matched by one _free and
\* nothing was freed twice.
C3_ArenaBalanced ==
  pc = "done" => (live = {} /\ frees = mallocs /\ ~doubleFree)

\* C4: in the worker's study pass (chunk size S >= 1) the k-th study call is
\* issued for offset k*S with length min(S, N - k*S), and once the pass is
\* over every sample index of [0,N) lies in exactly one study chunk and the
\* lengths sum to N.
StudyPassOver ==
  semitones # 0 /\ phase \in {"Processing", "Draining", "Complete"}
LengthsOf(q) == [k \in DOMAIN q |-> q[k].len]
C4_StudyCoversInput ==
  impl = "worker" =>
    /\ \A k \in DOMAIN StudyCalls :
         /\ StudyCalls[k].off = (k - 1) * samplesRequired
         /\ StudyCalls[k].len =
               Min(samplesRequired, inputLength - (k - 1) * samplesRequired)
         /\ StudyCalls[k].len >= 1
    /\ StudyPassOver =>
         /\ \A i \in 0..(inputLength - 1) :
              Cardinality({k \in DOMAIN StudyCalls :
                 /\ StudyCalls[k].off <= i
                 /\ i < StudyCalls[k].off + StudyCalls[k].len}) = 1
         /\ SumSeq(LengthsOf(StudyCalls)) = inputLength
         /\ \A k \in DOMAIN StudyCalls : ~StudyCalls[k].threw

\* the study pass ended with a remainder chunk shorter than the chunk size
C4_Witness ==
  /\ impl = "worker"
  /\ phase = "Processing"
  /\ Len(StudyCalls) = 2
  /\ StudyCalls[2].len < samplesRequired

\* C5 (as claimed): every process call is preceded by a study call carrying
\* isFinal = 1 that returned, and no study call follows a process call.
C5_ProcessOnlyAfterStudy ==
  \A j \in DOMAIN calls :
    calls[j].op = "rubberband_process" =>
      /\ \E i \in 1..(j - 1) :
           /\ calls[i].op = "rubberband_study"
           /\ calls[i].final = 1
           /\ ~calls[i].threw
      /\ \A k \in (j + 1)..Len(calls) : calls[k].op # "rubberband_study"

\* C6 (as claimed): a study / process call carries isFinal = 1 exactly when
\* its chunk ends at the input length, and a completed request on N > 0
\* samples has exactly one final study call and exactly one final process
\* call, each the last call of its pass.
FinalIffEnd(q) ==
  \A k \in DOMAIN q : (q[k].final = 1) <=> (q[k].off + q[k].len = inputLength)
OneFinalLast(q) ==
  /\ q # <<>>
  /\ \A k \in DOMAIN q : (q[k].final = 1) <=> (k = Len(q))
C6_FinalFlag ==
  /\ FinalIffEnd(StudyCalls)
  /\ FinalIffEnd(ProcessCalls)
  /\ (Completed /\ semitones # 0 /\ inputLength > 0) =>
        (OneFinalLast(StudyCalls) /\ OneFinalLast(ProcessCalls))

\* C7: in the worker, the (offset, length, isFinal) triples passed to process
\* repeat, element by element, those passed to study; when the process pass
\* is over the two sequences are identical.
Triple(c) == <<c.off, c.len, c.final>>
C7_SameChunkSequence ==
  impl = "worker" =>
    /\ Len(ProcessCalls) <= Len(StudyCalls)
    /\ \A k \in DOMAIN ProcessCalls :
         Triple(ProcessCalls[k]) = Triple(StudyCalls[k])
    /\ phase \in {"Draining", "Complete"} =>
         Len(ProcessCalls) = Len(StudyCalls)

\* both passes fed two chunks, the second one final
C7_Witness ==
  /\ impl = "worker"
  /\ phase = "Draining"
  /\ Len(ProcessCalls) = 2
  /\ Triple(ProcessCalls[2]) = <<2, 1, 1>>

\* C8: the progress values of a request are in [0,100] and non-decreasing;
\* study-pass values are <= 50 and process-pass values >= 50; the value
\* posted with the final study call is exactly 50; a completed shift of
\* N > 0 samples has posted progress, and the last value before 'complete'
\* is 100.
StudyProgressPosts == SelectSeq(posts, LAMBDA p : p.pass = "study")
C8_Progress ==
  /\ \A i \in DOMAIN ProgressPosts :
       LET p == ProgressPosts[i] IN
         /\ p.den > 0
         /\ 0 <= p.num /\ p.num <= 100 * p.den
         /\ p.pass = "study" => p.num <= 50 * p.den
         /\ p.pass = "process" => p.num >= 50 * p.den
         /\ \A j \in DOMAIN ProgressPosts :
              i < j => p.num * ProgressPosts[j].den
                         <= ProgressPosts[j].num * p.den
  /\ Len(StudyProgressPosts) <= Len(StudyCalls)
  /\ \A k \in DOMAIN StudyProgressPosts :
       StudyCalls[k].final = 1 =>
          StudyProgressPosts[k].num = 50 * StudyProgressPosts[k].den
  /\ (impl = "worker" /\ Completed /\ semitones # 0 /\ inputLength > 0) =>
        ProgressPosts # <<>>
  /\ \A i \in DOMAIN posts :
       (posts[i].type = "complete" /\ i > 1) =>
          /\ posts[i - 1].type = "progress"
          /\ posts[i - 1].num = 100 * posts[i - 1].den

\* a completed three-chunk request: six progress values, then 'complete'
C8_Witness ==
  /\ Completed
  /\ Len(ProgressPosts) = 6
  /\ ProgressPosts[3].num = 50 * ProgressPosts[3].den
  /\ ProgressPosts[4].pass = "process"

\* C9: no 'progress' response is posted after the request's terminal
\* response.
C9_ProgressBeforeTerminal ==
  \A i \in DOMAIN posts : \A j \in DOMAIN posts :
    (i < j /\ IsTerminal(posts[i])) => posts[j].type # "progress"

\* progress was posted, then the request failed in the process pass
C9_Witness ==
  /\ pc = "done"
  /\ Len(posts) >= 3
  /\ posts[Len(posts)].type = "error"
  /\ posts[Len(posts) - 1].pass = "process"

\* C10: engine calls whose failure the claim is about
SchedulerOps ==
  {"rubberband_set_time_ratio", "rubberband_set_pitch_scale",
   "rubberband_study", "rubberband_process", "rubberband_available",
   "rubberband_retrieve"}
FailedAt == {i \in DOMAIN calls : calls[i].threw /\ calls[i].op \in SchedulerOps}
FirstFailure == CHOOSE i \in FailedAt : \A j \in FailedAt : i <= j
LastThrow ==
  CHOOSE i \in DOMAIN calls :
    calls[i].threw /\ \A j \in DOMAIN calls : calls[j].threw => j <= i
NoRetryAndDestroyed ==
  /\ \A k \in (FirstFailure + 1)..Len(calls) :
       calls[k].op = "rubberband_delete"
  /\ Len(DeleteCalls) = 1
  /\ Cardinality(TerminalPosts) = 1
  /\ posts[Len(posts)].type = "error"

\* C10 (as claimed): after a failed engine call no further study / process /
\* retrieve call is issued, the session is destroyed, and the caller gets an
\* error whose message is that engine error's message, unchanged.
C10_ErrorUnchanged ==
  (pc = "done" /\ FailedAt # {}) =>
     /\ NoRetryAndDestroyed
     /\ posts[Len(posts)].msg = EngineMsg(calls[FirstFailure].op)

\* C10 (amended): ... the caller gets exactly one error; its message is the
\* message of the last native failure of the request (the failed call's, or
\* rubberband_delete's when the cleanup fails too), unchanged from the
\* worker and prefixed with "Pitch shifting failed: " from
\* PitchShifter.shiftPitch.
C10_ErrorSurfaced ==
  (pc = "done" /\ FailedAt # {}) =>
     /\ NoRetryAndDestroyed
     /\ posts[Len(posts)].msg =
          IF impl = "worker" THEN <<calls[LastThrow].op>>
          ELSE <<"Pitch shifting failed: ", calls[LastThrow].op>>

\* a failed process call, and a failed rubberband_delete after it
C10_Witness ==
  /\ pc = "done"
  /\ Threw("rubberband_process")
  /\ Threw("rubberband_delete")
  /\ posts[Len(posts)].type = "error"

\* the request handled last carries a sample rate or a channel count that is
\* not finite or not positive, or a shift that is not finite
MalformedRequest ==
  \/ ~IsFinite("sampleRate") \/ sampleRate <= 0
  \/ ~IsFinite("channels") \/ channels <= 0
  \/ ~IsFinite("semitones")

\* C11: a request with an invalid sample rate, channel count or shift ends
\* with an error, and rubberband_new is never called and nothing is
\* allocated for it.
C11_InvalidRejected ==
  (MalformedRequest /\ pc # "idle") =>
     /\ CallsOf("rubberband_new") = <<>>
     /\ mallocs = 0
     /\ pc = "done" => (Len(posts) = 1 /\ posts[1].type = "error")

\* rubberband_new returned, and what it returned is the null handle
NullHandle ==
  \E i \in DOMAIN calls :
     calls[i].op = "rubberband_new" /\ ~calls[i].threw /\ calls[i].ret = 0

\* C12: when rubberband_new returns a null handle the request ends with the
\* "failed to create" error, rubberband_new is the only engine call of the
\* request (no configuration, study, process, retrieve or destroy call), and
\* nothing is allocated in the arena.
C12_NullHandleEndsRequest ==
  NullHandle =>
     /\ Len(calls) = 1
     /\ mallocs = 0
     /\ pc \in {"done", IF impl = "worker" THEN "w_catch" ELSE "m_catch"}
     /\ pc = "done" =>
          posts = <<ErrorPost(IF impl = "worker" THEN CreateFailedMsg
                              ELSE Wrap(CreateFailedMsg))>>

\* a request has ended on a null handle
C12_Witness ==
  /\ pc = "done"
  /\ NullHandle
  /\ posts[Len(posts)].type = "error"

\* C13: a no-shift request (semitones = 0; the time ratio is 1.0 in every
\* request) on a valid signal is answered with the input channels
\* themselves, sample for sample, and costs nothing: no session is
\* created, no engine call is made, nothing is allocated.
C13_NoShiftIsIdentity ==
  (pc = "done" /\ initialized /\ ~MalformedRequest /\ semitones = 0) =>
     /\ posts = <<CompletePost(InputSignal(inputLength, channels))>>
     /\ calls = <<>>
     /\ stretcher = 0
     /\ mallocs = 0

\* a no-shift request on a two-channel signal has been answered
C13_Witness ==
  /\ Completed
  /\ semitones = 0
  /\ channels = 2
  /\ inputLength = MaxInputLength
  /\ Len(posts[1].data) = 2
  /\ Len(posts[1].data[2]) = MaxInputLength

\* C14: in the worker's retrieval after a process call (final = false),
\* rubberband_retrieve is called only right after a rubberband_available
\* that returned at least samplesRequired; an available reading below
\* samplesRequired ends the retrieval without a retrieve call (the next
\* engine call is the next process call or the drain's first reading).
C14_RetrieveOnlyWhenEnough ==
  impl = "worker" =>
    \A i \in DOMAIN calls :
       /\ (calls[i].op = "rubberband_retrieve" /\ calls[i].final = 0) =>
            /\ i > 1
            /\ calls[i - 1].op = "rubberband_available"
            /\ calls[i - 1].final = 0
            /\ ~calls[i - 1].threw
            /\ calls[i - 1].ret >= samplesRequired
       /\ ( /\ calls[i].op = "rubberband_available"
            /\ calls[i].final = 0
            /\ ~calls[i].threw
            /\ calls[i].ret < samplesRequired
            /\ i < Len(calls) ) =>
            \/ calls[i + 1].op = "rubberband_process"
            \/ /\ calls[i + 1].op = "rubberband_available"
               /\ calls[i + 1].final = 1

\* a reading below the threshold (but not zero) ended one retrieval, and a
\* later reading led to a retrieve call
C14_Witness ==
  /\ impl = "worker"
  /\ \E i, j \in DOMAIN calls :
       /\ i < j
       /\ calls[i].op = "rubberband_available"
       /\ calls[i].final = 0
       /\ calls[i].ret > 0
       /\ calls[i].ret < samplesRequired
       /\ calls[j].op = "rubberband_retrieve"
       /\ calls[j].final = 0
       /\ calls[j].ret > 0

\* call i was made by the drain, tryRetrieveOutput(..., final = true)
DrainCall(i) ==
  /\ calls[i].op \in {"rubberband_available", "rubberband_retrieve"}
  /\ calls[i].final = 1
\* the drain's readings that ended it (nothing available)
DrainEnds ==
  {i \in DOMAIN calls :
     /\ DrainCall(i)
     /\ calls[i].op = "rubberband_available"
     /\ ~calls[i].threw
     /\ calls[i].ret < 1}
CompletePosted == \E k \in DOMAIN posts : posts[k].type = "complete"
Shifted == ~(semitones = 0 /\ IsFinite("semitones"))

\* C15: in the worker the drain (retrieval with final = true) runs once per
\* request, after the last process call and whatever was read before. A
\* drain call is followed only by drain calls and, last, by the destroy
\* call (no study, no process, no thresholded retrieval, no second drain
\* after the reading that ended the first); the drain retrieves whenever
\* anything is available; it ends only on a reading of 0; and a request
\* that posts 'complete' has run it after all its process calls, so the
\* last rubberband_available reading before 'complete' is 0.
C15_DrainOnceAtEnd ==
  impl = "worker" =>
    /\ \A j \in DOMAIN calls :
         (j > 1 /\ DrainCall(j - 1)) =>
            \/ DrainCall(j)
            \/ calls[j].op = "rubberband_delete" /\ j = Len(calls)
    /\ \A i \in DOMAIN calls :
         (DrainCall(i) /\ calls[i].op = "rubberband_retrieve") =>
            /\ DrainCall(i - 1)
            /\ calls[i - 1].op = "rubberband_available"
            /\ calls[i - 1].ret >= 1
    /\ \A i \in DrainEnds :
         \A j \in DOMAIN calls :
            j > i => (j = i + 1 /\ calls[j].op = "rubberband_delete")
    /\ (CompletePosted /\ Shifted) =>
         /\ DrainEnds # {}
         /\ \A i \in DOMAIN calls :
              calls[i].op \in {"rubberband_process", "rubberband_available"}
                 => \E j \in DrainEnds : i <= j

\* a completed request whose drain retrieved output that was below the
\* samplesRequired threshold
C15_Witness ==
  /\ impl = "worker"
  /\ Completed
  /\ \E i \in DOMAIN calls :
       /\ DrainCall(i)
       /\ calls[i].op = "rubberband_retrieve"
       /\ calls[i].ret > 0
       /\ calls[i - 1].ret < samplesRequired
  /\ ProcessCalls # <<>>

\* the worker has just called rubberband_retrieve on the output buffers of
\* the current retrieval
JustRetrieved ==
  /\ impl = "worker"
  /\ pc = "w_freeOut"
  /\ calls[Len(calls)].op = "rubberband_retrieve"
\* every output buffer of the current retrieval holds exactly n samples
OutputBuffersHold(n) ==
  /\ Len(outputBuffers) = channels
  /\ \A c \in DOMAIN outputBuffers :
       /\ outputBuffers[c] \in live
       /\ allocBytes[outputBuffers[c]] = n * 4

\* C16 (as claimed): the output buffers hold exactly
\* min(samplesRequired, available) samples in a retrieval after a process
\* call and exactly `available` samples in the drain, and retrieve is asked
\* for that same number.
C16_SizedAsAsked ==
  JustRetrieved =>
    LET n == IF final THEN available ELSE Min(samplesRequired, available)
    IN  /\ OutputBuffersHold(n)
        /\ calls[Len(calls)].len = n

\* C16 (amended): in every retrieval, after a process call or in the drain,
\* the output buffers hold exactly `available` samples and retrieve is
\* asked for min(samplesRequired, available) samples, which never exceeds
\* what the buffers hold.
C16_SizedToAvailable ==
  JustRetrieved =>
    /\ OutputBuffersHold(available)
    /\ calls[Len(calls)].len = Min(samplesRequired, available)
    /\ calls[Len(calls)].ret <= available

\* a drain retrieval with more available than samplesRequired: buffers of
\* `available` samples, a request for fewer
C16_Witness ==
  /\ JustRetrieved
  /\ final
  /\ channels = 2
  /\ available > samplesRequired
  /\ calls[Len(calls)].len < available
  /\ ~calls[Len(calls)].threw

RetrieveCalls == CallsOf("rubberband_retrieve")

\* channel c of the concatenation of what the retrieve calls q returned, the
\* first of them being the k-th retrieval of the request
RECURSIVE Retrieved(_, _, _)
Retrieved(q, k, c) ==
  IF q = <<>> THEN <<>>
  ELSE [i \in 1..Head(q).ret |-> <<k, c, i>>] \o Retrieved(Tail(q), k + 1, c)

Range(q) == {q[i] : i \in DOMAIN q}
PointerTables == {inputPtrs, outputPtrs}

\* a study / process iteration (worker) or a chunk iteration
\* (PitchShifter) has just ended, normally or by an exception
IterationEnded ==
  \/ /\ impl = "worker"
     /\ pc \in {"w_studyLoop", "w_processLoop", "w_finallyFree"}
     /\ StudyCalls # <<>>
  \/ /\ impl = "main"
     /\ pc \in {"m_chunkLoop", "m_freePtrs"}
     /\ read > 0 \/ exc # NoExc
\* the position is inside one retrieval iteration of the worker / one chunk
\* iteration of PitchShifter
InIteration ==
  pc \in {"w_mallocOut", "w_retrieve", "w_freeOut", "m_mallocIn", "m_process",
          "m_available", "m_mallocOut", "m_retrieve", "m_freeChunk"}

ConfigOrder ==
  <<"rubberband_set_time_ratio", "rubberband_set_pitch_scale",
    "rubberband_set_expected_input_duration",
    "rubberband_get_samples_required", "rubberband_set_max_process_size">>
ConfigOps == Range(ConfigOrder)

C20_OneShiftInFlight ==
  /\ inFlight <= 1
  /\ inFlight = 1 =>
       /\ uiPc = "shifting"
       /\ previewBtn.disabled
       /\ ~ENABLED UI_fileDecoded
       /\ ~ENABLED UI_exportSettled
       /\ ~ENABLED UI_handleSliderChange
       /\ ~ENABLED UI_handlePreview

\* a request is in flight while a second upload and an export, either of
\* which re-enables the preview button when it ends, are still pending
C20_Witness ==
  /\ inFlight = 1
  /\ decoding # {}
  /\ exporting > 0
  /\ currentAudioBuffer # 0

\* ---- C21
\* C21: when a second 'process' message is delivered to the worker while a
\* first one is outstanding, the second is handled only after the first has
\* posted its terminal response: the responses of two process requests never
\* interleave, a process request that has started to be handled finds every
\* earlier one finished with a terminal response posted, and no two requests
\* use the same engine session (no two sessions are ever live together).
ProcessIds == {id \in DOMAIN handlers : handlers[id].type = "process"}
TerminalPosted(id) ==
  \E i \in DOMAIN responses :
    responses[i].id = id /\ responses[i].type \in {"complete", "error"}
C21_ProcessRequestsSerialized ==
  /\ \A i, j, k \in DOMAIN responses :
       (/\ i < j /\ j < k
        /\ responses[i].id \in ProcessIds
        /\ responses[j].id \in ProcessIds)
       => ~(responses[k].id = responses[i].id
            /\ responses[j].id # responses[i].id)
  /\ \A a, b \in ProcessIds :
       (a < b /\ handlers[b].pc # "queued")
       => handlers[a].pc = "done" /\ TerminalPosted(a)
  /\ Cardinality(sessions) <= 1
  /\ \A u, v \in uses : u[2] = v[2] => u[1] = v[1]
\* two process requests were outstanding together and both were carried out
\* on a session of their own
C21_Witness ==
  \E a, b \in ProcessIds :
    /\ a < b
    /\ handlers[a].pc = "done" /\ handlers[b].pc = "done"
    /\ handlers[a].stretcher # 0 /\ handlers[b].stretcher # 0
    /\ \E i \in DOMAIN responses :
         responses[i].id = a /\ responses[i].type = "progress"
    /\ \E i \in DOMAIN responses :
         responses[i].id = b /\ responses[i].type = "complete"

\* ---- C22
\* C22: terminate() ends the worker and rejects every request that is
\* pending at that moment: after the call no callback is stored any more,
\* the worker is gone, and no promise that was pending is still pending (so
\* none can be resolved later).
Pending(p) == promises[p].state = "pending"
C22_TerminateRejectsPending ==
  [][FF_terminate =>
       /\ worker' = 0
       /\ DOMAIN resolves' = {} /\ DOMAIN rejects' = {}
       /\ \A p \in DOMAIN promises :
            Pending(p) => promises'[p].state = "rejected"]_vars

\* ---- C24
\* C24: a response that is delivered to the page after the promise of its
\* request has been rejected (aborted, or rejected by terminate) is
\* discarded: it settles no promise, neither the stale one nor that of a
\* later request.
LateResponse(m) ==
  m.data \in DOMAIN promises /\ promises[m.data].state = "rejected"
C24_LateResponseDiscarded ==
  [][(/\ workerOutbox # <<>>
      /\ LateResponse(Head(workerOutbox))
      /\ FF_onmessage)
     => promises' = promises]_vars

\* ---- C23
\* C23: a request for which no terminal response arrives is rejected on the
\* control side after its timeout, so a pitch-shift request that has been
\* issued does not stay pending for ever: sooner or later none is in flight.
C23_PendingRequestSettles == (inFlight > 0) ~> (inFlight = 0)

\* ---- C25
\* C25: after a failed pitch-shift or export request the page is back in its
\* state before the request: the preview button is enabled, not loading and
\* labelled 'Preview', the export button is enabled or disabled as it was
\* before the request (no handler runs while a pitch shift is in flight, so
\* that is its state when the failed pitch shift settles; an export can only
\* be requested with the button enabled), the progress bar is hidden and the
\* status shows the error.
ShiftFailed == inFlight' < inFlight /\ status'.type = "error"
ExportFailed == exporting' < exporting /\ status'.type = "error"
C25_RestoredAfterFailure ==
  [][(ShiftFailed \/ ExportFailed) =>
       /\ previewBtn' = Button(FALSE, FALSE, "Preview")
       /\ ~exportBtn'.loading
       /\ ShiftFailed => exportBtn'.disabled = exportBtn.disabled
       /\ ExportFailed => ~exportBtn'.disabled
       /\ ~progressVisible']_vars

\* ---- C26
\* C26: when a pitch-shift request succeeds the preview button is enabled
\* again with the label 'Preview', the processed audio is the result of that
\* request and the export button is enabled; as long as no pitch shift has
\* succeeded (there is no processed audio) the export button is disabled.
ShiftSucceeded == inFlight' < inFlight /\ status'.type = "success"
C26_ExportOnlyAfterSuccess ==
  /\ [](processedAudioBuffer = NoBuffer => exportBtn.disabled)
  /\ [][ShiftSucceeded =>
          /\ previewBtn' = Button(FALSE, FALSE, "Preview")
          /\ processedAudioBuffer' = shiftArgs
          /\ ~exportBtn'.disabled]_vars

\* ---- C27
\* C27: the ratios given to the engine are derived from the request: every
\* rubberband_set_pitch_scale call passes 2^(semitones/12), every
\* rubberband_set_time_ratio call passes 1/tempo, and rubberband_new is
\* given the same two ratios as the initial ratios of the session. The
\* requests of this program carry no tempo: their tempo is 1.
Tempo == One
Inverse(ratio) == Ratio(0 - ratio.twelfths, ratio.nan)
C27_RatiosFromRequest ==
  IsFinite("semitones") =>
    \A i \in DOMAIN calls :
      /\ calls[i].op = "rubberband_set_pitch_scale"
           => calls[i].arg = <<Ratio(semitones, FALSE)>>
      /\ calls[i].op = "rubberband_set_time_ratio"
           => calls[i].arg = <<Inverse(Tempo)>>
      /\ calls[i].op = "rubberband_new"
           => calls[i].arg = <<Inverse(Tempo), Ratio(semitones, FALSE)>>

\* ---- C28
\* C28: the WAV bytes made from an AudioBuffer of F frames, C channels and
\* sample rate R are 44 + F*C*2 bytes long; the header holds "RIFF",
\* chunkSize = 44 + dataSize - 8, "WAVE", "fmt ", subchunk1 size 16, audio
\* format 1, C channels, sample rate R, byteRate = R*C*2, blockAlign = C*2,
\* 16 bits per sample, "data" and dataSize = F*C*2; the sample of channel c
\* in frame i, clamped and scaled to 16 bits, is at byte 44 + (i*C + c)*2.
ReadBytes(view, offset, n) == SubSeq(view, offset + 1, offset + n)
\* the number whose little-endian bytes are at offset (n bytes)
ReadUint(view, offset, n) ==
  LET b == ReadBytes(view, offset, n)
      RECURSIVE Value(_)
      Value(k) == IF k > n THEN 0 ELSE b[k] * (256 ^ (k - 1)) + Value(k + 1)
  IN  Value(1)
ReadInt16(view, offset) ==
  LET u == ReadUint(view, offset, 2) IN IF u >= 32768 THEN u - 65536 ELSE u
C28_WavLayout ==
  wav # <<>> =>
    LET F == audioBuffer.length
        C == audioBuffer.numberOfChannels
        R == audioBuffer.sampleRate
        dataSize == F * C * 2
    IN  /\ Len(wav) = 44 + dataSize
        /\ ReadBytes(wav, 0, 4) = <<82, 73, 70, 70>>
        /\ ReadUint(wav, 4, 4) = 44 + dataSize - 8
        /\ ReadBytes(wav, 8, 4) = <<87, 65, 86, 69>>
        /\ ReadBytes(wav, 12, 4) = <<102, 109, 116, 32>>
        /\ ReadUint(wav, 16, 4) = 16
        /\ ReadUint(wav, 20, 2) = 1
        /\ ReadUint(wav, 22, 2) = C
        /\ ReadUint(wav, 24, 4) = R
        /\ ReadUint(wav, 28, 4) = R * C * 2
        /\ ReadUint(wav, 32, 2) = C * 2
        /\ ReadUint(wav, 34, 2) = 16
        /\ ReadBytes(wav, 36, 4) = <<100, 97, 116, 97>>
        /\ ReadUint(wav, 40, 4) = dataSize
        /\ \A i \in 0..(F - 1), c \in 0..(C - 1) :
             LET x == audioBuffer.data[c + 1][i + 1]
                 clamped == IF x < 0 - 1000 THEN 0 - 1000
                            ELSE IF x > 1000 THEN 1000 ELSE x
             IN  /\ ReadInt16(wav, 44 + (i * C + c) * 2) * 1000
                      <= clamped * 32767 + 999
                 /\ ReadInt16(wav, 44 + (i * C + c) * 2) * 1000
                      >= clamped * 32767 - 999
\* a stereo buffer of two frames has been encoded, whose first sample is out
\* of range and whose second and third samples differ
C28_Witness ==
  /\ wav # <<>>
  /\ audioBuffer.length = 2
  /\ audioBuffer.numberOfChannels = 2
  /\ audioBuffer.data[2][1] # audioBuffer.data[1][2]
  /\ audioBuffer.data[1][1] > 1000

\* ---- C30
\* C30: every process request the worker starts handling eventually posts a
\* terminal response (complete or error), whatever counts the engine returns
\* from rubberband_available and rubberband_retrieve.
C30_ProcessRequestTerminates == (pc = "t_studyLoop") ~> (posts # <<>>)

\* ---- C31
\* C31: every copy of samples into or out of a staged buffer stays within
\* the buffer's allocated length: the chunk copied into a channel's input
\* buffer, the maxSamples passed to rubberband_retrieve and the samples
\* copied out of an output buffer never exceed what the buffer was
\* allocated for, in the worker and in PitchShifter.
\* the staged buffer at p is allocated and has room for n samples
Holds(p, n) == p \in live /\ n * 4 <= allocBytes[p]
\* the worker is about to copy the chunk at `read` into its input buffers
WorkerStages ==
  /\ impl = "worker"
  /\ pc \in {"w_studyLoop", "w_processLoop"}
  /\ read < inputLength
\* rubberband_retrieve has just returned to either component
RetrieveReturned ==
  /\ pc \in {"w_freeOut", "m_freeChunk"}
  /\ exc = NoExc
  /\ calls # <<>>
  /\ calls[Len(calls)].op = "rubberband_retrieve"
  /\ ~calls[Len(calls)].threw
C31_CopiesWithinBuffers ==
  /\ WorkerStages =>
       /\ Len(channelDataPtrs) = channels
       /\ \A c \in DOMAIN channelDataPtrs :
            Holds(channelDataPtrs[c], ChunkSize(read))
  /\ impl = "main" =>
       \A c \in DOMAIN inputBuffers :
         Holds(inputBuffers[c], M_ChunkSize(read))
  /\ RetrieveReturned =>
       /\ Len(outputBuffers) = channels
       /\ \A c \in DOMAIN outputBuffers :
            /\ Holds(outputBuffers[c], calls[Len(calls)].len)
            /\ Holds(outputBuffers[c], calls[Len(calls)].ret)
\* a full chunk has been staged in two channels and as many samples as the
\* output buffers hold have been retrieved
C31_Witness ==
  /\ RetrieveReturned
  /\ channels = 2
  /\ calls[Len(calls)].ret = available
  /\ available >= 2
  /\ \E i \in DOMAIN calls :
       calls[i].op = "rubberband_process" /\ calls[i].len >= 2

\* ---- C32
\* C32: an operation requested before initialization has completed fails
\* with an error and has no other effect. A 'process' message handled while
\* the worker is not initialized, also while an 'init' is still loading the
\* module, gets exactly an 'error' response, creates no session and uses
\* none; shiftPitch fails without an engine call or an allocation; the
\* exportTo... methods reject without an FFmpeg operation.
\* the types of the responses posted for message id, in order
RECURSIVE ResponsesTo(_, _)
ResponsesTo(id, rs) ==
  IF rs = <<>> THEN <<>>
  ELSE IF Head(rs).id = id THEN <<Head(rs).type>> \o ResponsesTo(id, Tail(rs))
  ELSE ResponsesTo(id, Tail(rs))
ProcessWhileUninitialized ==
  /\ running # 0
  /\ handlers[running].pc = "processAudio"
  /\ ~initialized
  /\ WL_processAudio
ExportWhileUninitialized ==
  /\ ~initialized
  /\ EX_call
  /\ exports'[Len(exports')].op # "init"
C32_UninitializedFails ==
  /\ [][ProcessWhileUninitialized =>
          /\ handlers'[running].exc = NotInitializedMsg("worker")
          /\ handlers'[running].stretcher = 0
          /\ created' = created
          /\ sessions' = sessions
          /\ uses' = uses]_vars
  /\ [](\A id \in DOMAIN handlers :
          (handlers[id].pc = "done"
             /\ handlers[id].exc = NotInitializedMsg("worker")) =>
            /\ ResponsesTo(id, responses) = <<"error">>
            /\ \A u \in uses : u[1] # id)
  /\ [][(~initialized /\ M_shiftPitch) =>
          /\ posts' = <<ErrorPost(NotInitializedMsg("main"))>>
          /\ pc' = "done"
          /\ calls' = <<>>
          /\ allocBytes' = <<>>
          /\ stretcher' = 0]_vars
  /\ [][ExportWhileUninitialized =>
          /\ exports'[Len(exports')].settled = "rejected"
          /\ exports'[Len(exports')].exc = ExporterNotInitializedMsg
          /\ exports'[Len(exports')].ffmpegOps = <<>>
          /\ ffmpegs' = ffmpegs
          /\ exporterFfmpeg' = exporterFfmpeg]_vars
\* a 'process' message has been answered with the error while an 'init'
\* message posted before it still waits for the module
C32_Witness ==
  \E id \in DOMAIN handlers, j \in DOMAIN handlers :
    /\ handlers[id].type = "process"
    /\ handlers[id].pc = "done"
    /\ handlers[id].exc = NotInitializedMsg("worker")
    /\ j < id
    /\ handlers[j].pc = "awaitImport"

\* ---- C33
\* C33: initialization is idempotent under any interleaving: however many
\* 'init' messages or exports overlap with a load in progress, the worker
\* instantiates its module at most once, the exporter creates and loads at
\* most one FFmpeg, and every 'init' message handled gets exactly one
\* 'ready' or 'error' response.
RECURSIVE ModuleLoads(_)
ModuleLoads(hs) ==
  IF hs = <<>> THEN 0 ELSE Head(hs).loads + ModuleLoads(Tail(hs))
C33_InitIdempotent ==
  /\ ModuleLoads(handlers) <= 1
  /\ Len(ffmpegs) <= 1
  /\ \A id \in DOMAIN handlers :
       (handlers[id].type = "init" /\ handlers[id].pc = "done") =>
         ResponsesTo(id, responses) \in {<<"ready">>, <<"error">>}

\* ---- C34
\* C34: whenever the export button is enabled, a processed buffer exists and
\* it was made from the file now loaded with the semitone value the slider
\* now shows.
C34_ExportIsCurrent ==
  ~exportBtn.disabled =>
    /\ processedAudioBuffer # NoBuffer
    /\ processedAudioBuffer.file = currentAudioBuffer
    /\ processedAudioBuffer.semitones = pitchSlider

\* ---- C35
\* C35: processFile forwards a file to the upload callback if and only if
\* (its MIME type is allowed or its lower-cased name ends with .mp3, .wav
\* or .m4a) and its size is at most 50 MB; a rejected file sets an error
\* status and leaves the current buffer, the controls and the callbacks as
\* they were.
\* the last n characters of a name, lower-cased letter by letter
Ending(name, n) ==
  IF Len(name) < n THEN <<>>
  ELSE [i \in 1..n |->
          LET c == name[Len(name) - n + i] IN
            CASE c = "A" -> "a" [] c = "M" -> "m" [] c = "P" -> "p"
              [] c = "V" -> "v" [] c = "W" -> "w" [] OTHER -> c]
Acceptable(file) ==
  /\ \/ file.type \in {"audio/mpeg", "audio/mp3", "audio/wav", "audio/x-wav",
                       "audio/mp4", "audio/x-m4a"}
     \/ Ending(file.name, 4) \in
          { <<".", "m", "p", "3">>, <<".", "w", "a", "v">>,
            <<".", "m", "4", "a">> }
  /\ file.size <= 50 * 1024 * 1024
Forwarded == uploads' = uploads + 1 /\ decoding' = decoding \cup {uploads'}
C35_FileValidation ==
  [][\A file \in Files :
       ProcessFile(file) =>
         /\ Forwarded <=> Acceptable(file)
         /\ ~Acceptable(file) =>
              /\ status'.type = "error"
              /\ UNCHANGED <<currentAudioBuffer, processedAudioBuffer,
                             previewBtn, exportBtn, pitchSlider, onPitchShift,
                             onExport, uploads, decoding>>]_vars
\* with a file loaded, a file that is too large has been refused
C35_Witness ==
  /\ status = ErrorStatus("Error: File size must be less than 50MB")
  /\ currentAudioBuffer # 0

\* ---- C36
\* C36: once the exporter is initialized, exportToMP3 never fails because
\* of an encoder failure: when loading FFmpeg, the PCM conversion or the
\* encoding fails, the call resolves with the WAV export instead, and it
\* rejects only when the WAV fallback itself fails.
EncoderFailures ==
  {LoadFailedMsg, PcmFailedMsg, EncodeFailedMsg("writeFile"),
   EncodeFailedMsg("exec"), EncodeFailedMsg("readFile")}
\* call i settles in this step
Settles(i) ==
  /\ i \in DOMAIN exports'
  /\ exports'[i].settled # ""
  /\ i \in DOMAIN exports => exports[i].settled = ""
C36_Mp3FallsBackToWav ==
  [][\A i \in 1..MaxCalls :
       (initialized /\ Settles(i) /\ exports'[i].op = "exportToMP3") =>
         \/ exports'[i].settled = "mp3" /\ exports'[i].exc = NoExc
         \/ exports'[i].settled = "wav" /\ exports'[i].exc \in EncoderFailures
         \/ exports'[i].settled = "rejected"
              /\ exports'[i].exc = WavFailedMsg]_vars
\* one exportToMP3 has fallen back to WAV after a failed encoding command
\* and another was rejected because its WAV fallback failed
C36_Witness ==
  /\ initialized
  /\ \E i \in DOMAIN exports :
       /\ exports[i].op = "exportToMP3"
       /\ exports[i].settled = "wav"
       /\ exports[i].exc = EncodeFailedMsg("exec")
  /\ \E i \in DOMAIN exports :
       /\ exports[i].op = "exportToMP3"
       /\ exports[i].settled = "rejected"
       /\ exports[i].exc = WavFailedMsg

\* ---- C37
\* C37: in the FFmpeg client every response settles exactly the pending
\* request it answers (resolved for LOAD, EXEC, WRITE_FILE, READ_FILE,
\* DELETE_FILE, rejected for ERROR) and removes the entries of its id; a
\* LOG or PROGRESS event settles no request and removes no entry; no
\* request is settled by the response to another one, and none is settled
\* twice.
C37_ResponseSettlesItsRequest ==
  [][FF_onmessage =>
       LET m == Head(workerOutbox) IN
         IF m.type \in EventTypes
         THEN UNCHANGED <<promises, resolves, rejects>>
         ELSE /\ \A p \in DOMAIN promises :
                   (p # m.data \/ ~Pending(p)) => promises'[p] = promises[p]
              /\ Pending(m.data) =>
                   promises'[m.data].state =
                     IF m.type = "ERROR" THEN "rejected" ELSE "resolved"
              /\ m.id \notin DOMAIN resolves' \cup DOMAIN rejects']_vars

\* ---- C38
\* C38: the embedded FFmpeg worker answers every request with exactly one
\* response carrying the id of the request: an ERROR response when the
\* core is not loaded (for any type but LOAD), when the type is unknown or
\* when the operation throws, and otherwise a response of the type of the
\* request; it never posts both.
\* the responses in box to request number n
Answers(n, box) ==
  {k \in DOMAIN box : box[k].type \notin EventTypes /\ box[k].data = n}
\* the request the worker finishes handling in this step, if any
Handled(m) ==
  \/ /\ FF_workerOnmessage
     /\ m = Head(workerInbox)
     /\ m.type # "LOAD"
  \/ /\ FF_workerLoadSettled
     /\ \E k \in DOMAIN workerLoads :
          m = workerLoads[k] /\ workerLoads' = RemoveAt(workerLoads, k)
WorkerRequests ==
  { [id |-> id, type |-> type, data |-> n] :
      id \in Ids, type \in WorkerMessageTypes, n \in 1..MaxRequests }
C38_OneResponsePerRequest ==
  /\ [](\A n \in 1..MaxRequests :
          /\ Cardinality(Answers(n, workerOutbox)) <= 1
          /\ (/\ n <= Received
              /\ ~\E k \in DOMAIN workerInbox : workerInbox[k].data = n
              /\ ~\E k \in DOMAIN workerLoads : workerLoads[k].data = n)
               => Cardinality(Answers(n, workerOutbox)) = 1)
  /\ [][\A m \in WorkerRequests :
          Handled(m) =>
            \E r \in {m, [m EXCEPT !.type = "ERROR"]} :
              /\ workerOutbox' = Append(workerOutbox, r)
              /\ (m.type # "LOAD" /\ ~ffmpeg) => r.type = "ERROR"
              /\ m.type \notin {"LOAD"} \cup OperationTypes
                   => r.type = "ERROR"]_vars
\* with the core loaded by request 1, request 2 has been answered with
\* ERROR under its own id
C38_Witness ==
  /\ workerInbox = <<>> /\ workerLoads = <<>>
  /\ ffmpeg
  /\ \E k \in DOMAIN workerOutbox :
       /\ workerOutbox[k] = [id |-> 1, type |-> "LOAD", data |-> 1]
       /\ \E j \in DOMAIN workerOutbox :
            j > k /\ workerOutbox[j] = [id |-> 2, type |-> "ERROR", data |-> 2]

\* ---- C39
\* C39: every FFmpeg instance created by decodeWithFFmpeg is terminated
\* before decodeWithFFmpeg returns or throws, on every exit path.
C39_DecoderTerminated ==
  \A i \in DOMAIN decodes :
    (decodes[i].settled # "" /\ decodes[i].ffmpeg # "none")
      => decodes[i].ffmpeg = "terminated"

====
